---- MODULE Spec2Model ----
(***************************************************************************)
(* Instant-navigation engine of the Billboard Hot 100 archive.             *)
(*                                                                         *)
(*  - session tier: src/src/scripts/prefetch-navigation.ts, lines 1-402    *)
(*    (the script with head reconciliation), together with the one other   *)
(*    writer of history state, updateHash of src/src/scripts/              *)
(*    scroll-controls.ts;                                                  *)
(*  - persistent tier: the service worker, src/unnamed/part_003 lines      *)
(*    83-222.                                                              *)
(*                                                                         *)
(* The session tier runs on the browser's event loop: one action is one    *)
(* task (an event handler, or the settling of a fetch together with the    *)
(* microtasks it releases).                                                *)
(***************************************************************************)
EXTENDS Integers, Sequences, FiniteSets, TLC

\* ------------------------------------------------------------------ bounds
\* largest vertical scroll offset the user can reach
MaxScroll == 1
\* longest session history the model lets the page build
MaxHist == 2
\* most callers suspended on a fetch at one time
MaxWaiters == MaxHist

\* history entries where navigations overlap
MaxOverlap == 3

\* -------------------------------------------------------------------- URLs
\* A URL is origin + (pathname, search) + hash; `path` stands for the pair
\* (pathname, search), which the code only ever compares or concatenates
\* together.
Origin == "https://hot100.example"
OtherOrigin == "https://open.spotify.com"
Paths == {"/", "/years/1999/", "/decades/1980s/"}
Hashes == {"", "#overall"}

U(p, h) == [origin |-> Origin, path |-> p, hash |-> h]

\* the page the session starts on; it has the jump control and a fragment
\* link to its own "overall" section
StartPath == "/"

\* every same-origin absolute URL of the model (url.href)
Hrefs == {U(p, "") : p \in Paths} \cup {U(StartPath, h) : h \in Hashes}

\* ------------------------------------------------------------ head elements
\* A serialized head node: tag kind, attribute set, text content (STYLE).
StyleNode(text) == [tagName |-> "STYLE", attributes |-> "", content |-> text]
LinkNode(href) ==
    [tagName |-> "LINK", attributes |-> "rel=stylesheet href=" \o href,
     content |-> "undefined"]

\* JSON.stringify({tagName, attributes, content: node.content ?? null})
getHeadNodeKey(node) ==
    <<node.tagName, node.attributes,
      IF node.content = "undefined" THEN "null" ELSE node.content>>

\* a live element of document.head
NoKey == <<>>
Unmanaged(tag) ==
    [tagName |-> tag, attributes |-> "", content |-> "undefined",
     managed |-> FALSE, key |-> NoKey]

\* createElementFromSerialized
createElementFromSerialized(node) ==
    [tagName |-> node.tagName, attributes |-> node.attributes,
     content |-> IF node.tagName = "STYLE" THEN node.content ELSE "undefined",
     managed |-> TRUE, key |-> getHeadNodeKey(node)]

\* serializeElement: only STYLE and stylesheet LINK elements serialize; the
\* two managed attributes are left out of the attribute set.
Serializable(el) == el.tagName \in {"STYLE", "LINK"}

serializeElement(el) ==
    [tagName |-> el.tagName, attributes |-> el.attributes,
     content |-> IF el.tagName = "STYLE" THEN el.content ELSE "undefined"]

\* ensureManagedAttributes: tag every style / stylesheet link of the head
ensureManagedAttributes(head) ==
    [i \in 1..Len(head) |->
        IF Serializable(head[i])
        THEN [head[i] EXCEPT !.managed = TRUE,
                             !.key = getHeadNodeKey(serializeElement(head[i]))]
        ELSE head[i]]

RECURSIVE getManagedHeadNodes(_)
\* getManagedHeadNodes: the managed elements, serialized, in document order
getManagedHeadNodes(head) ==
    IF head = <<>> THEN <<>>
    ELSE (IF Head(head).managed /\ Serializable(Head(head))
          THEN <<serializeElement(Head(head))>> ELSE <<>>)
            \o getManagedHeadNodes(Tail(head))

\* a variant that never finds a live element
FirstWithKeyNone(head, k) == 0

\* index of the first element of head carrying key k, 0 when there is none
FirstWithKey(head, k) ==
    IF \E i \in 1..Len(head) : head[i].managed /\ head[i].key = k
    THEN CHOOSE i \in 1..Len(head) :
            /\ head[i].managed /\ head[i].key = k
            /\ \A j \in 1..(i - 1) : ~(head[j].managed /\ head[j].key = k)
    ELSE 0

RemoveAt(s, i) == SubSeq(s, 1, i - 1) \o SubSeq(s, i + 1, Len(s))

RECURSIVE SyncLoop(_, _, _)
\* the forEach over the desired nodes: move the first live element with the
\* node's key into the fragment, or create one
SyncLoop(head, fragment, nodes) ==
    IF nodes = <<>> THEN head \o fragment
    ELSE LET k == getHeadNodeKey(Head(nodes))
             i == FirstWithKey(head, k)
         IN  IF i > 0
             THEN SyncLoop(RemoveAt(head, i), Append(fragment, head[i]), Tail(nodes))
             ELSE SyncLoop(head,
                           Append(fragment, createElementFromSerialized(Head(nodes))),
                           Tail(nodes))

RECURSIVE RemoveUndesiredAny(_, _)
\* a variant that does not look at the managed attribute
RemoveUndesiredAny(head, desiredKeys) ==
    IF head = <<>> THEN <<>>
    ELSE (IF Head(head).key = NoKey \/ Head(head).key \notin desiredKeys
          THEN <<>> ELSE <<Head(head)>>)
            \o RemoveUndesiredAny(Tail(head), desiredKeys)

RECURSIVE RemoveUndesired(_, _)
\* managed elements with no key or a key that is not desired are removed
RemoveUndesired(head, desiredKeys) ==
    IF head = <<>> THEN <<>>
    ELSE (IF Head(head).managed
             /\ (Head(head).key = NoKey \/ Head(head).key \notin desiredKeys)
          THEN <<>> ELSE <<Head(head)>>)
            \o RemoveUndesired(Tail(head), desiredKeys)

\* syncHeadNodes
syncHeadNodes(head, headNodes) ==
    LET desiredKeys == {getHeadNodeKey(headNodes[i]) : i \in 1..Len(headNodes)}
    IN  SyncLoop(RemoveUndesired(head, desiredKeys), <<>>, headNodes)

\* --------------------------------------------------------------- documents
\* What the site serves for a path (the build's output, an input here).
DocTitle(p) ==
    CASE p = "/" -> "Home"
      [] p = "/years/1999/" -> "1999"
      [] OTHER -> ""

DocHead(p) ==
    CASE p = "/" -> <<LinkNode("/base.css"), StyleNode("home")>>
      [] p = "/years/1999/" -> <<LinkNode("/base.css"), StyleNode("year")>>
      [] OTHER -> <<StyleNode("decade"), LinkNode("/base.css")>>

DocHtml(p) == "content of " \o p

\* the head of the document as first loaded: the served nodes, untagged, after
\* an element the script does not manage
LoadedHead(p) ==
    <<Unmanaged("META")>> \o
    [i \in 1..Len(DocHead(p)) |->
        [createElementFromSerialized(DocHead(p)[i])
            EXCEPT !.managed = FALSE, !.key = NoKey]]

\* one served document: what DOMParser makes of the response body
Doc(p) == [html |-> DocHtml(p), title |-> DocTitle(p), headNodes |-> DocHead(p)]

\* ============================================================ session tier
VARIABLES
    cache,        \* Map<string, PageEntry>: href -> entry
    inflight,     \* Map<string, Promise<PageEntry>>: href -> pending request
    requests,     \* the network fetches issued and not yet settled
    waiters,      \* code suspended on `await fetchAndCache(url)`, in call order
    currentUrl,   \* the tracked current URL (an href)
    hist,         \* the session history: entries [path, hash, state]
    idx,          \* index of the active history entry
    scroll,       \* window.scrollY
    head,         \* document.head, a sequence of elements
    html,         \* contentRoot.innerHTML
    title,        \* document.title
    nativeNav,    \* the native (full) navigation that was started, or NoNav
    controls,     \* TRUE while the jump control's click handler is on the live DOM
    ev,           \* what the last step was (observation only, no code reads it)
    caches,       \* CacheStorage: store name -> (request URL -> stored response)
    deployed,     \* the build of sw.js the server serves
    installing,   \* the worker being installed, or NoWorker
    active,       \* the registration's active worker, or NoWorker
    controller,   \* build of the worker controlling the open page, 0 for none
    handlers,     \* the fetch events the active worker is handling
    issued,       \* number of fetch events the worker has answered so far
    online,       \* TRUE while the network is reachable
    fetchedOk,    \* static URLs a network fetch has succeeded for (observation)
    reg,          \* the registration script's state in the loaded page
    env           \* what the loaded page offered the session-tier script at start-up

navVars ==
    <<cache, inflight, requests, waiters, currentUrl, hist, idx, scroll, head,
      html, title, nativeNav, controls, ev>>

swVars ==
    <<caches, deployed, installing, active, controller, handlers, issued,
      online, fetchedOk, reg>>

vars == <<navVars, swVars, env>>


\* history.state: null, or an object with a numeric scrollY
Null == [null |-> TRUE]
St(y) == [null |-> FALSE, scrollY |-> y]

\* window.location, read off the active history entry
Loc == hist[idx]
LocHref == U(hist[idx].path, hist[idx].hash)

\* isSameDocumentNavigation(url): pathname and search equal the location's
isSameDocumentNavigationHref(url, loc) == url.path = loc.path /\ url.hash = loc.hash

isSameDocumentNavigation(url, loc) == url.path = loc.path

\* ----------------------------------------------------------------- anchors
NoHref == [origin |-> "", path |-> "", hash |-> ""]

\* A native (full) navigation: where to, and what started it: "fallback" is
\* the assignment to window.location.href in a catch block, "default" the
\* browser's default action for a click nobody prevented.
Native(url, by) == [to |-> url, by |-> by]

\* no native navigation has been started
NoNav == Native(NoHref, "none")

Link(url) == [href |-> url, target |-> "", download |-> FALSE, rel |-> ""]

\* the anchors an event can hit; NoAnchor is a target outside any anchor
NoAnchor == [href |-> NoHref, target |-> "none", download |-> FALSE, rel |-> ""]

Anchors ==
    {Link(u) : u \in Hrefs}
    \cup {Link([origin |-> OtherOrigin, path |-> "/", hash |-> ""]),
          Link(NoHref),
          [Link(U("/years/1999/", "")) EXCEPT !.target = "_self"],
          [Link(U("/years/1999/", "")) EXCEPT !.target = "_blank"],
          [Link(U("/years/1999/", "")) EXCEPT !.download = TRUE],
          [Link(U("/decades/1980s/", "")) EXCEPT !.rel = "external"],
          NoAnchor}

\* a variant that takes any target attribute for a new browsing context
getAnchorFromEventNoTarget(a) ==
    /\ a # NoAnchor
    /\ a.href # NoHref
    /\ a.target = ""
    /\ ~(a.download \/ a.rel = "external")

\* getAnchorFromEvent: TRUE when it returns the anchor, FALSE when null
getAnchorFromEvent(a) ==
    /\ a # NoAnchor
    /\ a.href # NoHref
    /\ ~(a.target # "" /\ a.target # "_self")
    /\ ~(a.download \/ a.rel = "external")

\* the mouse events of the model: a plain primary click and one event per
\* reason isModifyingClick gives
PlainClick ==
    [defaultPrevented |-> FALSE, button |-> 0, metaKey |-> FALSE,
     ctrlKey |-> FALSE, shiftKey |-> FALSE, altKey |-> FALSE]

ClickEvents ==
    {PlainClick,
     [PlainClick EXCEPT !.defaultPrevented = TRUE],
     [PlainClick EXCEPT !.button = 1],
     [PlainClick EXCEPT !.metaKey = TRUE],
     [PlainClick EXCEPT !.ctrlKey = TRUE],
     [PlainClick EXCEPT !.shiftKey = TRUE],
     [PlainClick EXCEPT !.altKey = TRUE]}

\* a variant that lets alt-clicks through
isModifyingClickNoAlt(e) ==
    e.defaultPrevented \/ e.button # 0 \/ e.metaKey \/ e.ctrlKey \/ e.shiftKey

isModifyingClick(e) ==
    e.defaultPrevented \/ e.button # 0 \/ e.metaKey \/ e.ctrlKey
        \/ e.shiftKey \/ e.altKey

\* ------------------------------------------------------------ the page record
\* The fields a content swap touches, threaded through the continuations
\* that one settled fetch releases.
Page ==
    [cache |-> cache, head |-> head, html |-> html, title |-> title,
     hist |-> hist, idx |-> idx, currentUrl |-> currentUrl, scroll |-> scroll,
     nativeNav |-> nativeNav, controls |-> controls]

MapSet(m, k, v) == [x \in DOMAIN m \cup {k} |-> IF x = k THEN v ELSE m[x]]
MapDel(m, k) == [x \in DOMAIN m \ {k} |-> m[x]]

\* the snapshot render and the start-up code take of the displayed page
Capture(P) ==
    [html |-> P.html, title |-> P.title, headNodes |-> getManagedHeadNodes(P.head)]

\* no page recorded
NoSnap == [html |-> "", title |-> "", headNodes |-> <<>>]

\* A history entry: its URL (path + search + hash), its state object, and
\* `rec`, an observation that no code reads: the offset navigateTo last wrote
\* into this entry (-1: none since the entry was created or last left by a
\* traversal or a fragment navigation). `snap` is another: the page (content,
\* title, managed head nodes) as it was when render's push left this entry,
\* NoSnap once the entry has been written again.
HistEntry(url, st, rec) ==
    [path |-> url.path, hash |-> url.hash, state |-> st, rec |-> rec,
     snap |-> NoSnap]

\* history.pushState: drop the forward entries, append, make it active
pushState(P, st, url) ==
    [P EXCEPT !.hist = Append(SubSeq(P.hist, 1, P.idx), HistEntry(url, st, -1)),
              !.idx = P.idx + 1]

\* a variant that appends an entry instead
replaceStateAppends(P, st, url) ==
    [P EXCEPT !.hist = Append(SubSeq(P.hist, 1, P.idx),
                              HistEntry(url, st, P.hist[P.idx].rec)),
              !.idx = P.idx + 1]

\* history.replaceState on the active entry
replaceState(P, st, url) ==
    [P EXCEPT !.hist[P.idx] = HistEntry(url, st, P.hist[P.idx].rec)]

\* a variant that leaves the head alone
swapContentKeepHead(P, entry) ==
    [P EXCEPT !.html = entry.html,
              !.title = entry.title,
              !.controls = FALSE]

\* swapContent
swapContent(P, entry) ==
    [P EXCEPT !.head = syncHeadNodes(P.head, entry.headNodes),
              !.html = entry.html,
              !.title = entry.title,
              !.controls = FALSE]

renderKeepUrl(P, url, entry, push, scrollY) ==
    LET P1 == [P EXCEPT !.cache = MapSet(P.cache, P.currentUrl, Capture(P))]
        P2 == swapContent(P1, entry)
        P3 == IF push THEN pushState(P2, St(scrollY), url)
                      ELSE replaceState(P2, St(scrollY), url)
    IN  [P3 EXCEPT !.scroll = scrollY]

\* render(url, entry, pushState, scrollY)
render(P, url, entry, push, scrollY) ==
    LET P1 == [P EXCEPT !.cache = MapSet(P.cache, P.currentUrl, Capture(P))]
        P2 == swapContent(P1, entry)
        P3 == IF push
              THEN pushState([P2 EXCEPT !.hist[P.idx].snap = Capture(P)],
                             St(scrollY), url)
              ELSE replaceState(P2, St(scrollY), url)
    IN  [P3 EXCEPT !.currentUrl = url, !.scroll = scrollY]

\* ------------------------------------------------------------ fetchAndCache
\* A network fetch is named by its URL and a serial number among the
\* outstanding fetches of that URL.
Req(href, n) == [href |-> href, n |-> n]

FreshId(href) ==
    Req(href, CHOOSE n \in 1..(Cardinality(requests) + 1) : Req(href, n) \notin requests)

\* How fetchAndCache(url) answers: "hit" (the cached entry), "shared" (the
\* promise already in the in-flight table) or "new" (a fetch is issued).
fetchAndCacheNoHit(href) ==
    IF href \in DOMAIN inflight THEN "shared" ELSE "new"

fetchAndCacheNoShare(href) ==
    IF href \in DOMAIN cache THEN "hit" ELSE "new"

fetchAndCache(href) ==
    IF href \in DOMAIN cache THEN "hit"
    ELSE IF href \in DOMAIN inflight THEN "shared"
    ELSE "new"

\* the request a caller of fetchAndCache(href) ends up awaiting
AwaitedReq(href) ==
    IF fetchAndCache(href) = "shared" THEN inflight[href] ELSE FreshId(href)

\* requests and in-flight table after fetchAndCache(href)
RequestsAfter(href) ==
    IF fetchAndCache(href) = "new" THEN requests \cup {FreshId(href)} ELSE requests

InflightAfter(href) ==
    IF fetchAndCache(href) = "new" THEN MapSet(inflight, href, FreshId(href)) ELSE inflight

Waiter(kind, url, req, scrollY) ==
    [kind |-> kind, url |-> url, req |-> req, scrollY |-> scrollY]

\* The modelled history holds a bounded number of entries: a step that would
\* push one more is left out (a fetch that would, stays pending), and an
\* intercepted click needs room for its own push and for those of the
\* navigations already suspended.
HistFits == Len(hist') <= MaxHist

NavWaiters == {i \in 1..Len(waiters) : waiters[i].kind = "nav"}

HistRoom == Len(hist) + Cardinality(NavWaiters) < MaxHist

\* room left for one more suspended caller
WaitRoom == Len(waiters) < MaxWaiters

Alive == nativeNav = NoNav

SetPage(P) ==
    /\ cache' = P.cache
    /\ head' = P.head
    /\ html' = P.html
    /\ title' = P.title
    /\ hist' = P.hist
    /\ idx' = P.idx
    /\ currentUrl' = P.currentUrl
    /\ scroll' = P.scroll
    /\ nativeNav' = P.nativeNav
    /\ controls' = P.controls

EvNone == [op |-> "none"]

\* ============================================================== worker tier
\* the version tokens of the source: 'html-v1', 'static-v2'
HtmlToken == 1

StaticToken == 2

\* builds of sw.js a behaviour may deploy, and fetch events the worker may
\* answer
MaxBuild == 2

MaxFetch == 2

\* a build of sw.js: the source with its two version strings as deployed
Build(n, h, s) == [build |-> n, html |-> h, static |-> s]

SourceBuild == Build(1, HtmlToken, StaticToken)

NoBuild == Build(0, 0, 0)

HTML_CACHE(b) == [kind |-> "html", v |-> b.html]

STATIC_CACHE(b) == [kind |-> "static", v |-> b.static]

\* request URLs, with the parts of the pathname the listener tests
Url(o, dir, name, ext) == [origin |-> o, dir |-> dir, name |-> name, ext |-> ext]

RootUrl == Url(Origin, "/", "", "")

SHELL_URLS == {RootUrl}

YearUrl == Url(Origin, "/years/1999/", "", "")

StyleUrl == Url(Origin, "/", "style", ".css")

\* a worker: the build it runs, its lifecycle state, where its install or
\* activate handler stands, and the names caches.keys() gave it
Worker(b, state, pc, names) ==
    [b |-> b, state |-> state, pc |-> pc, cacheNames |-> names]

NoWorker == Worker(NoBuild, "none", "none", {})

\* response bodies are told apart by who fetched them: the install of a
\* build, or the n-th fetch event
Body(by, n) == [by |-> by, n |-> n]

NoBody == Body("none", 0)

Answer(from, ok, body) == [from |-> from, ok |-> ok, body |-> body]

NoAnswer == Answer("none", FALSE, NoBody)

\* The registration script's state in the loaded page: where register() is,
\* hasExistingController, the workers whose statechange it listens to (by
\* build number), the state changes its listener has handled, and who
\* loaded the page ("user", or "script" for the script's own reload).
RegStart(by) ==
    [pc |-> "unloaded", hasExistingController |-> FALSE, watched |-> {},
     handled |-> {}, by |-> by]

\* no worker registered, cache storage empty, the source's build on the server
SwStart ==
    /\ caches = <<>>
    /\ deployed = SourceBuild
    /\ installing = NoWorker
    /\ active = NoWorker
    /\ controller = 0
    /\ handlers = {}
    /\ issued = 0
    /\ online = TRUE
    /\ fetchedOk = {}
    /\ reg = RegStart("user")

\* --------------------------------------------------------------- start-up
\* What the script finds when it runs on a loaded page: fetch and history on
\* window, a navigator object and its connection.saveData, what
\* matchMedia('(prefers-reduced-data: reduce)') does ("absent": matchMedia is
\* no function; "throws": the call throws), and a #content-root element.
Env(f, h, n, s, m, c) ==
    [fetch |-> f, history |-> h, navigator |-> n, saveData |-> s,
     matchMedia |-> m, contentRoot |-> c]

NormalEnv == Env(TRUE, TRUE, TRUE, FALSE, "nomatch", TRUE)

\* the pages of the model: the normal one and those differing from it in one
\* respect
Envs ==
    {NormalEnv,
     [NormalEnv EXCEPT !.fetch = FALSE],
     [NormalEnv EXCEPT !.history = FALSE],
     [NormalEnv EXCEPT !.saveData = TRUE],
     [NormalEnv EXCEPT !.matchMedia = "matches"],
     [NormalEnv EXCEPT !.matchMedia = "throws"],
     [NormalEnv EXCEPT !.matchMedia = "absent"],
     [NormalEnv EXCEPT !.contentRoot = FALSE]}

\* a variant that reads the connection hint only
reduceDataPreferenceSaveDataOnly(e) == e.navigator /\ e.saveData

\* reduceDataPreference
reduceDataPreference(e) ==
    IF e.navigator /\ e.saveData THEN TRUE
    ELSE IF e.matchMedia # "absent"
         THEN (IF e.matchMedia = "throws" THEN FALSE ELSE e.matchMedia = "matches")
    ELSE FALSE

\* a variant without the #content-root guard
startsUpAnyPage(e) ==
    e.fetch /\ e.history /\ ~reduceDataPreference(e)

\* the guards in front of the script's body: TRUE when it goes on to install
\* its listeners
startsUp(e) ==
    /\ e.fetch /\ e.history
    /\ ~reduceDataPreference(e)
    /\ e.contentRoot

\* innerHTML of a content region that is not there
NoContentRoot == "no #content-root"

\* the content region of the page as loaded
LoadedHtml(p, e) == IF e.contentRoot THEN DocHtml(p) ELSE NoContentRoot

\* The page after the script has run to its end on a freshly loaded document:
\* the head tagged, the page captured under location.href, the entry's state
\* normalized to carry scrollY.
Started(p, y, e) ==
    /\ head = ensureManagedAttributes(LoadedHead(p))
    /\ html = LoadedHtml(p, e)
    /\ title = DocTitle(p)
    /\ currentUrl = U(p, "")
    /\ cache = (U(p, "") :> [html |-> LoadedHtml(p, e), title |-> DocTitle(p),
                             headNodes |-> getManagedHeadNodes(
                                 ensureManagedAttributes(LoadedHead(p)))])
    /\ inflight = <<>>
    /\ requests = {}
    /\ waiters = <<>>
    /\ hist = <<HistEntry(U(p, ""), St(y), -1)>>
    /\ idx = 1
    /\ scroll = y
    /\ nativeNav = NoNav
    /\ controls = TRUE
    /\ ev = EvNone

\* The page after the script has returned early: nothing tagged, captured or
\* normalized, no listener installed.
NotStarted(p, y, e) ==
    /\ head = LoadedHead(p)
    /\ html = LoadedHtml(p, e)
    /\ title = DocTitle(p)
    /\ currentUrl = NoHref
    /\ cache = <<>>
    /\ inflight = <<>>
    /\ requests = {}
    /\ waiters = <<>>
    /\ hist = <<HistEntry(U(p, ""), Null, -1)>>
    /\ idx = 1
    /\ scroll = y
    /\ nativeNav = NoNav
    /\ controls = TRUE
    /\ ev = EvNone

\* the session tier running on the normal page
NavInit ==
    \E p \in {StartPath}, y \in 0..MaxScroll :
        /\ env = NormalEnv
        /\ Started(p, y, env)
        /\ SwStart

\* ------------------------------------------------------------ user events
\* the user scrolls the window
Scroll ==
    /\ Alive
    /\ \E y \in 0..MaxScroll : y # scroll /\ scroll' = y
    /\ ev' = EvNone
    /\ UNCHANGED <<cache, inflight, requests, waiters, currentUrl, hist, idx,
                   head, html, title, nativeNav, controls, swVars, env>>

\* handleIntent(event), for mouseover, focusin and touchstart alike
Intercepts(a) ==
    /\ getAnchorFromEvent(a)
    /\ a.href.origin = Origin
    /\ ~isSameDocumentNavigation(a.href, Loc)
    /\ a.href # currentUrl

\* a variant that prefetches only when no fetch is outstanding
handleIntentWhenIdle(a) ==
    /\ Alive
    /\ requests = {}
    /\ IF Intercepts(a)
       THEN /\ requests' = RequestsAfter(a.href)
            /\ inflight' = InflightAfter(a.href)
       ELSE UNCHANGED <<requests, inflight>>
    /\ ev' = EvNone
    /\ UNCHANGED <<cache, waiters, currentUrl, hist, idx, scroll, head, html,
                   title, nativeNav, controls, swVars, env>>

handleIntent(a) ==
    /\ Alive
    /\ IF Intercepts(a)
       THEN \* prefetch(url): await fetchAndCache(url), errors swallowed; its
            \* continuation does nothing, so no waiter is kept for it
            /\ requests' = RequestsAfter(a.href)
            /\ inflight' = InflightAfter(a.href)
       ELSE UNCHANGED <<requests, inflight>>
    /\ ev' = EvNone
    /\ UNCHANGED <<cache, waiters, currentUrl, hist, idx, scroll, head, html,
                   title, nativeNav, controls, swVars, env>>

Intent == \E a \in Anchors : handleIntent(a)

\* a variant without the replaceState in front of the fetch
navigateToNoRecord(url) ==
    IF fetchAndCache(url) = "hit"
    THEN /\ SetPage(render(Page, url, cache[url], TRUE, 0))
         /\ UNCHANGED <<requests, inflight, waiters>>
    ELSE /\ WaitRoom
         /\ SetPage(Page)
         /\ waiters' = Append(waiters, Waiter("nav", url, AwaitedReq(url), 0))
         /\ requests' = RequestsAfter(url)
         /\ inflight' = InflightAfter(url)

\* navigateTo(url): the scroll offset goes into the active entry first; then
\* either the entry is there and render runs in the same task, or the caller
\* is suspended on the request's promise.
navigateTo(url) ==
    LET P0 == [Page EXCEPT !.hist[idx] =
                    HistEntry(LocHref, St(scroll), scroll)]
    IN  IF fetchAndCache(url) = "hit"
        THEN /\ SetPage(render(P0, url, cache[url], TRUE, 0))
             /\ UNCHANGED <<requests, inflight, waiters>>
        ELSE /\ WaitRoom
             /\ SetPage(P0)
             /\ waiters' = Append(waiters, Waiter("nav", url, AwaitedReq(url), 0))
             /\ requests' = RequestsAfter(url)
             /\ inflight' = InflightAfter(url)

\* What the browser does with a click nobody prevented: nothing here for a
\* target outside an anchor, a new context, a download or a modified click;
\* a fragment navigation within the document; a full navigation otherwise.
DefaultAction(a, e) ==
    IF \/ a = NoAnchor \/ a.href = NoHref \/ e # PlainClick
       \/ a.target = "_blank" \/ a.download
    THEN UNCHANGED <<hist, idx, scroll, nativeNav>>
    ELSE IF a.href.origin = Origin /\ a.href.path = Loc.path
    THEN /\ IF a.href.hash = Loc.hash
            THEN UNCHANGED <<hist, idx>>
            ELSE /\ hist' = Append([SubSeq(hist, 1, idx) EXCEPT ![idx].rec = -1],
                                    HistEntry(a.href, Null, -1))
                 /\ idx' = idx + 1
         /\ \E y \in 0..MaxScroll : scroll' = y
         /\ UNCHANGED nativeNav
    ELSE /\ nativeNav' = Native(a.href, "default")
         /\ UNCHANGED <<hist, idx, scroll>>

\* the click listener's decision: TRUE when it reaches preventDefault
clickIntercepts(a, e) ==
    getAnchorFromEvent(a) /\ ~isModifyingClick(e) /\ Intercepts(a)

\* the capturing click listener
click(a, e) ==
    /\ Alive
    /\ IF clickIntercepts(a, e)
       THEN \* event.preventDefault(); navigateTo(url)
            navigateTo(a.href)
       ELSE /\ DefaultAction(a, e)
            /\ UNCHANGED <<cache, inflight, requests, waiters, currentUrl,
                           head, html, title, controls>>
    /\ ev' = IF clickIntercepts(a, e)
             THEN [op |-> "click", url |-> a.href, answer |-> fetchAndCache(a.href)]
             ELSE EvNone
    /\ UNCHANGED <<swVars, env>>

\* every anchor takes a plain click; the modified clicks land on two links
ClickInputs ==
    {<<a, PlainClick>> : a \in Anchors}
    \cup {<<Link(U(p, "")), e>> : p \in {"/", "/years/1999/"}, e \in ClickEvents}

\* a click, within the bounds of the modelled history
Click ==
    \E c \in ClickInputs :
        /\ clickIntercepts(c[1], c[2]) => HistRoom
        /\ click(c[1], c[2])
        /\ HistFits

\* updateHash(hash) of the jump control (scroll-controls.ts): the active
\* entry's URL gets the hash and its state becomes null. The control's smooth
\* scroll is the Scroll action. The control is part of the loaded page's
\* content: its click handler is bound at load and is gone with the first
\* content swap (nothing dispatches the prefetch:navigated event that would
\* bind it again).
updateHash(h) ==
    /\ Alive
    /\ controls
    /\ hist' = [hist EXCEPT ![idx] = [@ EXCEPT !.hash = h, !.state = Null]]
    /\ ev' = EvNone
    /\ UNCHANGED <<cache, inflight, requests, waiters, currentUrl, idx, scroll,
                   head, html, title, nativeNav, controls, swVars, env>>

UpdateHash == \E h \in Hashes : updateHash(h)

\* The user goes back or forward to entry t of the session history and the
\* popstate listener runs: url is the new location, event.state the state of
\* the entry arrived at.
popstate(t) ==
    LET url == U(hist[t].path, hist[t].hash)
        scrollY == IF hist[t].state = Null THEN 0 ELSE hist[t].state.scrollY
        P0 == [Page EXCEPT !.idx = t, !.hist[idx].rec = -1]
    IN  /\ Alive
        /\ IF fetchAndCache(url) = "hit"
           THEN /\ SetPage(render(P0, url, cache[url], FALSE, scrollY))
                /\ UNCHANGED <<requests, inflight, waiters>>
           ELSE /\ WaitRoom
                /\ SetPage(P0)
                /\ waiters' = Append(waiters,
                                     Waiter("pop", url, AwaitedReq(url), scrollY))
                /\ requests' = RequestsAfter(url)
                /\ inflight' = InflightAfter(url)
        /\ ev' = [op |-> "pop", from |-> idx, leftState |-> hist[idx].state,
                  leftScroll |-> scroll, rendered |-> (fetchAndCache(url) = "hit"),
                  snap |-> hist[t].snap]
        /\ UNCHANGED <<swVars, env>>

PopState == \E t \in 1..Len(hist) : t # idx /\ popstate(t)

\* ------------------------------------------------------------------ settle
\* the ways a fetch can end: network error, non-success status, a document
\* without #content-root, a document with it
Outcomes == {"neterr", "notok", "noroot", "ok"}

\* the entry the .then callback builds from the parsed document
EntryOf(href, docTitle, outcome) ==
    [html |-> IF outcome = "noroot" THEN NoContentRoot ELSE Doc(href.path).html,
     title |-> IF Doc(href.path).title = "" THEN docTitle ELSE Doc(href.path).title,
     headNodes |-> Doc(href.path).headNodes]

RECURSIVE RunWaiters(_, _, _, _, _)
\* the continuations of the callers awaiting request r, in call order:
\* navigateTo and the popstate listener render on success and assign
\* window.location.href on failure
RunWaiters(P, ws, r, ok, entry) ==
    IF ws = <<>> THEN P
    ELSE LET w == Head(ws)
             P1 == IF w.req # r THEN P
                   ELSE IF ok THEN render(P, w.url, entry, w.kind = "nav", w.scrollY)
                   ELSE [P EXCEPT !.nativeNav = Native(w.url, "fallback")]
         IN  RunWaiters(P1, Tail(ws), r, ok, entry)

RECURSIVE Others(_, _)
Others(ws, r) ==
    IF ws = <<>> THEN <<>>
    ELSE (IF Head(ws).req = r THEN <<>> ELSE <<Head(ws)>>) \o Others(Tail(ws), r)

\* a variant that stores nothing
StoreEntryNever(c, href, outcome, entry) == c

\* the .then callback's effect on the cache
StoreEntryAlways(c, href, outcome, entry) ==
    IF outcome \in {"ok", "noroot"} THEN MapSet(c, href, entry) ELSE c

StoreEntry(c, href, outcome, entry) ==
    IF outcome = "ok" THEN MapSet(c, href, entry) ELSE c

\* a variant that leaves the in-flight table alone
FinallyKeep(m, href) == m

\* the .finally callback
Finally(m, href) == MapDel(m, href)

\* the suspended navigateTo calls for other requests that were suspended
\* before a navigateTo call awaiting r
Ahead(ws, r) ==
    {i \in 1..Len(ws) :
        /\ ws[i].kind = "nav" /\ ws[i].req # r
        /\ \E j \in (i + 1)..Len(ws) : ws[j].kind = "nav" /\ ws[j].req = r}

\* Request r settles: .then stores the entry or throws, .finally removes the
\* in-flight entry, and the suspended callers run.
settle(r, outcome) ==
    LET href == r.href
        entry == EntryOf(href, title, outcome)
        P0 == [Page EXCEPT !.cache = StoreEntry(cache, href, outcome, entry)]
    IN  /\ Alive
        /\ requests' = requests \ {r}
        /\ inflight' = Finally(inflight, href)
        /\ SetPage(RunWaiters(P0, waiters, r, outcome = "ok", entry))
        /\ waiters' = Others(waiters, r)
        /\ ev' = [op |-> "settle", url |-> href, outcome |-> outcome,
                  released |-> {waiters[i].kind :
                                    i \in {j \in 1..Len(waiters) : waiters[j].req = r}},
                  wasCurrent |-> currentUrl,
                  histLen |-> Len(hist),
                  others |-> {q \in requests : q # r /\ q.href = href},
                  ahead |-> {waiters[i].url : i \in Ahead(waiters, r)},
                  snap |-> hist[idx].snap]
        /\ UNCHANGED <<swVars, env>>

\* a fetch settles, within the bounds of the modelled history
Settle == \E r \in requests, o \in Outcomes : settle(r, o) /\ HistFits

NavNext == Scroll \/ Intent \/ Click \/ UpdateHash \/ PopState \/ Settle

SpecNav == NavInit /\ [][NavNext]_vars

\* ================================================== claims, session tier
ReqsFor(h) == {r \in requests : r.href = h}

WaitersOn(r) == {i \in 1..Len(waiters) : waiters[i].req = r}

\* C1: at any time at most one network fetch per URL is outstanding, the
\* in-flight table names exactly the outstanding fetches, and every suspended
\* caller awaits the one fetch of its URL: a call for a URL that is in flight
\* got the pending promise, not a new fetch.
C1_OneFetchPerUrl ==
    /\ \A h \in Hrefs : Cardinality(ReqsFor(h)) <= 1
    /\ \A r \in requests : r.href \in DOMAIN inflight /\ inflight[r.href] = r
    /\ \A h \in DOMAIN inflight : inflight[h] \in requests
    /\ \A i \in 1..Len(waiters) :
          waiters[i].req \in requests /\ waiters[i].req.href = waiters[i].url

\* two callers suspended on the one outstanding fetch of a URL
C1_Witness ==
    /\ Len(waiters) = 2
    /\ waiters[1].req = waiters[2].req
    /\ waiters[1].req \in requests

\* C2: a click on a link whose prefetch is still in flight issues no fetch and
\* awaits the pending one; when that fetch resolves successfully it was the
\* only fetch of the URL, and the page shown, the tracked current URL and the
\* active history entry are those of the clicked link.
C2_ClickSharesPrefetch ==
    [][/\ (ev'.op = "click" /\ ev'.url \in DOMAIN inflight)
            => /\ requests' = requests
               /\ Len(waiters') = Len(waiters) + 1
               /\ waiters'[Len(waiters')] =
                      Waiter("nav", ev'.url, inflight[ev'.url], 0)
       /\ (ev'.op = "settle" /\ ev'.outcome = "ok" /\ "nav" \in ev'.released)
            => /\ ReqsFor(ev'.url) = {inflight[ev'.url]}
               /\ ReqsFor(ev'.url) \cap requests' = {}
               /\ html' = DocHtml(ev'.url.path)
               /\ currentUrl' = ev'.url
               /\ U(hist'[idx'].path, hist'[idx'].hash) = ev'.url
               /\ idx' > idx]_vars

\* the click came after a hover: the fetch it joined had no caller suspended
\* on it, so an intent event had issued it
C2_Witness ==
    /\ ev.op = "click"
    /\ ev.answer = "shared"
    /\ Len(waiters) = 1
    /\ waiters[1].kind = "nav"
    /\ waiters[1].req \in requests

\* C3: when the fetch a click awaits fails (network error, non-success
\* response, missing content region), window.location.href is assigned the
\* URL (a full native navigation), and nothing is swapped, no history entry is
\* pushed or changed and the session cache gets no entry for the URL.
C3_FailedNavigationFallsBack ==
    [][(ev'.op = "settle" /\ ev'.outcome # "ok" /\ "nav" \in ev'.released)
          => /\ nativeNav' = Native(ev'.url, "fallback")
             /\ html' = html /\ title' = title /\ head' = head
             /\ hist' = hist /\ idx' = idx /\ currentUrl' = currentUrl
             /\ cache' = cache
             /\ ev'.url \notin DOMAIN cache']_vars

C3_Witness ==
    /\ ev.op = "settle"
    /\ ev.outcome = "neterr"
    /\ "nav" \in ev.released
    /\ nativeNav = Native(U("/decades/1980s/", ""), "fallback")

\* a step that leaves the active history entry by an intercepted click (the
\* push of render) or by back/forward
LeavesEntry ==
    \/ ev'.op = "pop"
    \/ ev'.op = "click" /\ ev'.answer = "hit"
    \/ ev'.op = "settle" /\ ev'.outcome = "ok" /\ "nav" \in ev'.released

\* C7: whenever the user navigates away from the active history entry, by an
\* intercepted click or by back/forward, the scrollY stored in that entry's
\* state equals the window's scroll offset immediately before the navigation.
\* (The entry left is hist[idx]; its state is read once the step has written
\* what it writes, so navigateTo's own replaceState counts.)
C7_ScrollKeptCurrent ==
    [][LeavesEntry => hist'[idx].state = St(scroll)]_vars

\* C8: when Back arrives at an entry that was left forward by an intercepted
\* click, the scroll offset restored is the scrollY navigateTo recorded in
\* that entry when it was left.
C8_BackRestoresRecorded ==
    (ev.op = "pop" /\ ev.rendered /\ ev.from > idx /\ hist[idx].rec # -1)
        => scroll = hist[idx].rec

\* a link the intent and click handling accept, in the words of the
\* behaviour description: it has a target URL, does not open in a new
\* context and is not marked for download or external handling
EligibleLink(a) ==
    /\ a # NoAnchor
    /\ a.href # NoHref
    /\ a.target \in {"", "_self"}
    /\ ~a.download
    /\ a.rel # "external"

\* a same-origin link to a document other than the one at the location
DifferentDocument(a) ==
    EligibleLink(a) /\ a.href.origin = Origin /\ a.href.path # Loc.path

\* an intercepted click has attempted the swap: the page is swapped already
\* (entry cached) or navigateTo is suspended on the fetch of the URL, and no
\* native navigation has started
SwapAttempted ==
    ev.op = "click" =>
        /\ nativeNav = NoNav
        /\ IF ev.answer = "hit"
           THEN currentUrl = ev.url /\ LocHref = ev.url /\ html = DocHtml(ev.url.path)
           ELSE /\ ev.url \in DOMAIN inflight
                /\ waiters[Len(waiters)] = Waiter("nav", ev.url, inflight[ev.url], 0)

bareClick(a, e) ==
    /\ Alive
    /\ DefaultAction(a, e)
    /\ HistFits
    /\ ev' = [op |-> "bare", a |-> a, e |-> e]
    /\ UNCHANGED <<cache, inflight, requests, waiters, currentUrl, head, html,
                   title, controls, swVars, env>>

BareClick == \E c \in ClickInputs : bareClick(c[1], c[2])

\* mouseover, focusin, touchstart: nobody listens
bareIntent(a) ==
    /\ Alive
    /\ ev' = EvNone
    /\ UNCHANGED <<cache, inflight, requests, waiters, currentUrl, hist, idx,
                   scroll, head, html, title, nativeNav, controls, swVars, env>>

BareIntent == \E a \in Anchors : bareIntent(a)

\* back or forward among the entries of the document: the browser moves and
\* restores a scroll offset of its own
barePopState(t) ==
    /\ Alive
    /\ idx' = t
    /\ \E y \in 0..MaxScroll : scroll' = y
    /\ ev' = EvNone
    /\ UNCHANGED <<cache, inflight, requests, waiters, currentUrl, hist, head,
                   html, title, nativeNav, controls, swVars, env>>

BarePopState == \E t \in 1..Len(hist) : t # idx /\ barePopState(t)

\* the script has run on a freshly loaded page, whatever the page offers
BootInit ==
    \E e \in Envs, y \in 0..MaxScroll :
        /\ env = e
        /\ IF startsUp(e) THEN Started(StartPath, y, e)
                          ELSE NotStarted(StartPath, y, e)
        /\ SwStart

WithTier == startsUp(env) /\ NavNext

WithoutTier ==
    ~startsUp(env) /\ (Scroll \/ UpdateHash \/ BareClick \/ BareIntent \/ BarePopState)

BootNext == WithTier \/ WithoutTier

SpecBoot == BootInit /\ [][BootNext]_vars

\* ============================================= claims, start-up and capture
\* C11: every entry of the session cache was captured from a document that
\* had the content-region container: a fetched document without it counts as
\* a failed fetch (nothing stored for its URL, callers fall back to a native
\* navigation), and on a page without it the script stores nothing at all,
\* not starting.
C11_EntriesHaveContentRoot ==
    /\ \A h \in DOMAIN cache : cache[h].html # NoContentRoot
    /\ ~env.contentRoot =>
           /\ cache = <<>> /\ requests = {} /\ inflight = <<>>
           /\ currentUrl = NoHref
           /\ head = LoadedHead(StartPath)
    /\ (ev.op = "settle" /\ ev.outcome = "noroot") =>
           /\ ev.url \notin DOMAIN cache
           /\ ev.released # {} => nativeNav = Native(ev.url, "fallback")

\* a clicked page came back without the container: nothing stored, the
\* browser sent to the URL
C11_Witness ==
    /\ ev.op = "settle" /\ ev.outcome = "noroot"
    /\ "nav" \in ev.released
    /\ ev.url \notin DOMAIN cache
    /\ nativeNav = Native(ev.url, "fallback")

\* ====================================================== the page in use
\* handleClick of a sort button (sortable-table.ts): the rows of the table
\* are put in the other order and aria-sort is set, inside the content
\* region. The buttons get their listeners when the page loads; swapped-in
\* content has none (see `controls`).
SortedHtml(h, dir) == DocHtml(StartPath) \o ", sorted " \o dir

sortTable ==
    /\ Alive
    /\ controls
    /\ html' = IF html = SortedHtml(html, "ascending")
               THEN SortedHtml(html, "descending")
               ELSE SortedHtml(html, "ascending")
    /\ ev' = EvNone
    /\ UNCHANGED <<cache, inflight, requests, waiters, currentUrl, hist, idx,
                   scroll, head, title, nativeNav, controls, swVars, env>>

PageNext == NavNext \/ sortTable

SpecPage == NavInit /\ [][PageNext]_vars

\* capturing the displayed page and swapping the capture back in, over
\* whatever page p has been swapped in meanwhile
RoundTrip(p) ==
    Capture(swapContent(swapContent(Page, p), Capture(Page))) = Capture(Page)

\* a Back or Forward that has just shown the page of an entry render's push
\* had left, with the page recorded then
Returned ==
    \/ ev.op = "pop" /\ ev.rendered /\ ev.snap # NoSnap
    \/ /\ ev.op = "settle" /\ ev.outcome = "ok" /\ ev.released = {"pop"}
       /\ ev.url = LocHref /\ ev.snap # NoSnap

\* C12: capture then restore gives back the same content, title and managed
\* head nodes, whatever page was shown in between; in particular after A to
\* B and back to A the page shown is the page A was when it was left.
C12_CaptureRestoreRoundTrip ==
    /\ Alive => \A h \in DOMAIN cache : RoundTrip(cache[h])
    /\ Returned => Capture(Page) = ev.snap

\* the first half alone
C12_RoundTrip ==
    Alive => \A h \in DOMAIN cache : RoundTrip(cache[h])

\* a reduced-data signal: Save-Data on the connection, or the media query
ReducedData(e) == (e.navigator /\ e.saveData) \/ e.matchMedia = "matches"

\* C16: under a reduced-data signal the session tier has installed nothing:
\* no fetch is ever issued and nothing is cached or awaited, no history entry
\* carries a state of the tier's making, the head is left untagged, and a
\* plain click on a link to another page is the browser's own navigation.
C16_ReducedDataInstallsNothing ==
    ReducedData(env) =>
        /\ requests = {} /\ inflight = <<>> /\ waiters = <<>> /\ cache = <<>>
        /\ currentUrl = NoHref
        /\ \A i \in 1..Len(hist) : hist[i].state = Null
        /\ head = LoadedHead(StartPath)
        /\ html = LoadedHtml(StartPath, env)
        /\ nativeNav.by # "fallback"
        /\ (ev.op = "bare" /\ nativeNav # NoNav) =>
               nativeNav = Native(ev.a.href, "default")

\* with the media query matching, a link to another page was hovered or
\* clicked at will, and the click went to the browser
C16_Witness ==
    /\ env.matchMedia = "matches" /\ ~env.saveData
    /\ ev.op = "bare" /\ ev.e = PlainClick
    /\ ev.a.href = U("/years/1999/", "")
    /\ nativeNav = Native(ev.a.href, "default")
    /\ requests = {} /\ cache = <<>>

\* C20 as stated: every step that swaps the content ends with the
\* `prefetch:navigated` event dispatched, so the scripts subscribed to it
\* have bound their handlers to the new content.
C20_NavigatedDispatched ==
    [][(html' # html \/ title' # title) => controls']_vars

\* ============================================ claims, prefetch and render
\* what the user sees and what the history holds
Shown == <<html, title, head, hist, idx, currentUrl, scroll>>

\* C21: the step in which an intent event issues a prefetch changes neither
\* the page shown, the history, the tracked URL, the scroll offset nor the
\* cache; the settling of a fetch nobody but prefetches awaited changes none
\* of the first six either, starts no native navigation, and when the fetch
\* failed the cache is as before and the URL is neither cached nor in
\* flight, so that fetchAndCache would issue a new fetch for it.
C21_PrefetchHasNoEffect ==
    [][/\ (requests' # requests /\ requests \subseteq requests'
              /\ waiters' = waiters)
           => /\ Shown' = Shown
              /\ cache' = cache
              /\ nativeNav' = nativeNav
       /\ (ev'.op = "settle" /\ ev'.released = {})
           => /\ Shown' = Shown
              /\ nativeNav' = nativeNav
              /\ ev'.outcome # "ok" =>
                     /\ cache' = cache
                     /\ ev'.url \notin DOMAIN cache'
                     /\ ev'.url \notin DOMAIN inflight']_vars

\* a prefetch has failed on a document without the content region, with
\* nobody waiting for it
C21_Witness ==
    /\ ev.op = "settle"
    /\ ev.released = {}
    /\ ev.outcome = "noroot"
    /\ ev.url \notin DOMAIN cache
    /\ ev.url \notin DOMAIN inflight
    /\ nativeNav = NoNav

\* C24: the step of an intercepted click leaves the entry the click was
\* made on with the scroll offset of that moment in its state, whether the
\* destination was cached or its fetch is only now issued or joined; and
\* while a navigation is suspended on its fetch, a back/forward traversal
\* does not touch the state of the entry it leaves.
C24_ScrollWrittenBeforeFetch ==
    [][/\ ev'.op = "click" =>
              /\ hist'[idx].state = St(scroll)
              /\ ev'.answer # "hit" =>
                     /\ idx' = idx
                     /\ ev'.url \in DOMAIN inflight'
                     /\ waiters'[Len(waiters')].kind = "nav"
       /\ (ev'.op = "pop" /\ NavWaiters # {}) =>
              hist'[idx].state = hist[idx].state]_vars

\* the click was made with the page scrolled and its fetch is outstanding:
\* the entry carries the offset navigateTo wrote
C24_Witness ==
    /\ ev.op = "click"
    /\ ev.answer = "new"
    /\ inflight[ev.url] \in requests
    /\ waiters[Len(waiters)].url = ev.url
    /\ hist[idx].rec = 1
    /\ hist[idx].state = St(1)

\* C25: the in-flight table holds exactly the URLs whose fetch is
\* outstanding; a fetch that has just settled, with whatever outcome, has
\* left neither a request nor an in-flight entry for its URL, and after a
\* failure fetchAndCache would issue a new fetch for the URL.
C25_InflightRemovedOnSettle ==
    /\ DOMAIN inflight = {r.href : r \in requests}
    /\ ev.op = "settle" =>
           /\ ev.url \notin DOMAIN inflight
           /\ ReqsFor(ev.url) = {}
           /\ ev.outcome # "ok" => fetchAndCache(ev.url) = "new"

\* a prefetch ended in a non-success response while another fetch is still
\* outstanding: only the other is in the table, and the page lives on
C25_Witness ==
    /\ ev.op = "settle"
    /\ ev.outcome = "notok"
    /\ Alive
    /\ Cardinality(DOMAIN inflight) = 1
    /\ fetchAndCache(ev.url) = "new"

\* the scrollY the popstate listener reads from the state of entry t
StateScrollY(t) == IF hist[t].state = Null THEN 0 ELSE hist[t].state.scrollY

\* C26: a traversal to an entry whose page is cached shows that page in the
\* same step, with as many history entries as before and the scroll offset
\* at the scrollY of the entry's state, 0 when the state has none; for a
\* page not cached the listener is suspended with that scrollY, and when the
\* fetch succeeds the fetched page is shown, no entry is added and the
\* scroll offset is the one kept; when it fails a native navigation to the
\* URL starts and the page is left as it is.
C26_PopRestores ==
    [][/\ ev'.op = "pop" =>
              LET url == U(hist[idx'].path, hist[idx'].hash)
              IN  /\ Len(hist') = Len(hist)
                  /\ U(hist'[idx'].path, hist'[idx'].hash) = url
                  /\ ev'.rendered =>
                         /\ html' = cache[url].html
                         /\ title' = cache[url].title
                         /\ scroll' = StateScrollY(idx')
                         /\ hist'[idx'].state = St(StateScrollY(idx'))
                         /\ currentUrl' = url
                  /\ ~ev'.rendered =>
                         /\ html' = html
                         /\ waiters'[Len(waiters')] =
                                Waiter("pop", url, inflight'[url], StateScrollY(idx'))
       /\ (ev'.op = "settle" /\ ev'.released = {"pop"}
               /\ Cardinality(WaitersOn(inflight[ev'.url])) = 1) =>
              LET w == waiters[CHOOSE i \in WaitersOn(inflight[ev'.url]) : TRUE]
              IN  /\ Len(hist') = Len(hist) /\ idx' = idx
                  /\ ev'.outcome = "ok" =>
                         /\ html' = DocHtml(ev'.url.path)
                         /\ scroll' = w.scrollY
                         /\ U(hist'[idx'].path, hist'[idx'].hash) = ev'.url
                         /\ nativeNav' = NoNav
                  /\ ev'.outcome # "ok" =>
                         /\ nativeNav' = Native(ev'.url, "fallback")
                         /\ html' = html /\ hist' = hist]_vars

\* back to an entry whose state carries scrollY 1: its page came from the
\* cache, and the window is at 1 with two entries in the history
C26_Witness ==
    /\ ev.op = "pop" /\ ev.rendered
    /\ ev.from = 2 /\ idx = 1 /\ Len(hist) = 2
    /\ ev.leftScroll = 0
    /\ scroll = 1
    /\ hist[idx].state = St(1)

\* the page of the entry gone back to had to be fetched and the fetch
\* failed: the browser navigates to it
C26_WitnessFallback ==
    /\ ev.op = "settle" /\ ev.released = {"pop"}
    /\ ev.outcome = "neterr"
    /\ nativeNav = Native(ev.url, "fallback")

\* a step in which exactly one navigation renders: an intercepted click on
\* a cached page, or the settling of a fetch that only one navigateTo awaits
NavRenders ==
    \/ ev'.op = "click" /\ ev'.answer = "hit"
    \/ /\ ev'.op = "settle" /\ ev'.outcome = "ok" /\ ev'.released = {"nav"}
       /\ Cardinality(WaitersOn(inflight[ev'.url])) = 1

\* the entry such a step renders
NavEntry ==
    IF ev'.op = "click" THEN cache[ev'.url] ELSE EntryOf(ev'.url, title, "ok")

\* C27: in the one step of a successful navigation the page that was shown
\* is captured under the tracked URL, the destination's head nodes, content
\* and title are put in, one history entry with scrollY 0 and the
\* destination's URL is added behind the active one and becomes active, the
\* tracked URL is the destination and the window is at the top. No state
\* of the model lies between these effects.
C27_NavigationIsOneStep ==
    [][NavRenders =>
          /\ cache'[currentUrl] = Capture(Page)
          /\ \A h \in DOMAIN cache' \ {currentUrl, ev'.url} :
                 h \in DOMAIN cache /\ cache'[h] = cache[h]
          /\ head' = syncHeadNodes(head, NavEntry.headNodes)
          /\ html' = NavEntry.html
          /\ title' = NavEntry.title
          /\ idx' = idx + 1 /\ Len(hist') = idx + 1
          /\ SubSeq(hist', 1, idx - 1) = SubSeq(hist, 1, idx - 1)
          /\ hist'[idx'].state = St(0)
          /\ U(hist'[idx'].path, hist'[idx'].hash) = ev'.url
          /\ currentUrl' = ev'.url
          /\ scroll' = 0
          /\ nativeNav' = NoNav]_vars

\* a click on a link whose page was cached, made with the window scrolled:
\* the page is shown at the top under a second history entry
C27_Witness ==
    /\ ev.op = "click" /\ ev.answer = "hit"
    /\ idx = 2 /\ Len(hist) = 2
    /\ hist[1].rec = 1
    /\ hist[2].state = St(0)
    /\ currentUrl = ev.url
    /\ html = DocHtml(ev.url.path)
    /\ head # ensureManagedAttributes(LoadedHead(StartPath))
    /\ scroll = 0

\* C28: no step removes a URL from the session cache; no fetch is ever
\* issued for a URL that has an entry, an intercepted click on such a URL
\* being answered with the entry; and an entry that changes was that of the
\* tracked URL and has become the capture of the page shown before the step.
C28_EntriesKeptAndNeverRefetched ==
    [][/\ DOMAIN cache \subseteq DOMAIN cache'
       /\ \A r \in requests' \ requests : r.href \notin DOMAIN cache
       /\ \A r \in requests : r.href \notin DOMAIN cache
       /\ (ev'.op = "click" /\ ev'.url \in DOMAIN cache) =>
              /\ ev'.answer = "hit"
              /\ requests' = requests
              /\ html' = cache[ev'.url].html
       /\ \A h \in DOMAIN cache :
              cache'[h] # cache[h] =>
                  /\ h = currentUrl
                  /\ cache'[h] = Capture(Page)]_vars

\* the table of the start page was sorted before a link was followed: the
\* entry of the start page is no longer the page as loaded but the page as
\* it was left, and no fetch is outstanding
C28_Witness ==
    /\ currentUrl # U(StartPath, "")
    /\ cache[U(StartPath, "")].html = SortedHtml(DocHtml(StartPath), "ascending")
    /\ requests = {}
    /\ Cardinality(DOMAIN cache) = 2

\* a click the session tier is to leave alone for what the event is
ExcludedEvent(e) ==
    \/ e.button # 0
    \/ e.metaKey \/ e.ctrlKey \/ e.shiftKey \/ e.altKey
    \/ e.defaultPrevented

\* a link the session tier is to leave alone: nothing to resolve, a new
\* browsing context, a download, rel=external, another origin
ExcludedLink(a) ==
    \/ a = NoAnchor \/ a.href = NoHref
    \/ a.target = "_blank"
    \/ a.download
    \/ a.rel = "external"
    \/ a.href.origin # Origin

\* C29: in every state of the live page, a click that is not a plain
\* primary click, or whose link is excluded, does not reach preventDefault,
\* and an intent event on an excluded link does not reach prefetch; and a
\* click the browser answers with a navigation of its own has issued no
\* fetch, suspended nobody and changed neither the session cache, the
\* history, the tracked URL nor the page.
C29_ExcludedNeverIntercepted ==
    /\ [](Alive =>
            \A a \in Anchors :
                /\ ExcludedLink(a) => ~Intercepts(a)
                /\ \A e \in ClickEvents :
                       (ExcludedEvent(e) \/ ExcludedLink(a))
                           => ~clickIntercepts(a, e))
    /\ [][(nativeNav = NoNav /\ nativeNav'.by = "default") =>
              /\ requests' = requests /\ inflight' = inflight
              /\ waiters' = waiters /\ cache' = cache
              /\ Shown' = Shown]_vars

\* with a prefetch outstanding, a click on the link to the other origin was
\* left to the browser, which navigates there
C29_Witness ==
    /\ nativeNav = Native([origin |-> OtherOrigin, path |-> "/", hash |-> ""],
                          "default")
    /\ Cardinality(requests) = 1
    /\ waiters = <<>>
    /\ Len(hist) = 1

\* ================================================ claims, overlapping work
\* C32: a fetch, once issued, leaves the outstanding fetches only by
\* settling: no navigation, traversal or other event takes it or its
\* in-flight entry away. When it settles successfully the entry of its URL
\* is in the cache, whatever page is shown by then.
C32_PrefetchRunsToCompletion ==
    [][/\ \A r \in requests \ requests' :
                 ev'.op = "settle" /\ ev'.url = r.href
          /\ \A h \in DOMAIN inflight \ DOMAIN inflight' :
                 ev'.op = "settle" /\ ev'.url = h
          /\ (ev'.op = "settle" /\ ev'.outcome = "ok") =>
                 /\ ev'.url \in DOMAIN cache'
                 /\ ev'.released = {} =>
                        cache'[ev'.url] = EntryOf(ev'.url, title, "ok")]_vars

\* a prefetch nobody waited for has succeeded after the user had moved on to
\* a third page: its entry is in the cache next to the other two
C32_Witness ==
    /\ ev.op = "settle" /\ ev.outcome = "ok" /\ ev.released = {}
    /\ ev.wasCurrent # U(StartPath, "")
    /\ ev.url # ev.wasCurrent
    /\ currentUrl = ev.wasCurrent
    /\ ev.url \in DOMAIN cache
    /\ Cardinality(DOMAIN cache) = 3

\* a link the tier takes over whose page is neither cached nor being fetched
FreshLink(a) ==
    /\ Intercepts(a)
    /\ fetchAndCache(a.href) = "new"

\* C33: while a fetch is outstanding (it may never end) and the page lives,
\* hovering over a link to another uncached URL issues that URL's fetch, and
\* so does a click on it (given room in the bounded queues of the model);
\* and when the fetch a click waits for succeeds while other fetches are
\* still outstanding, the clicked page is rendered and those fetches stay
\* outstanding.
C33_HangingFetchBlocksNobodyElse ==
    /\ [](\A r \in requests : \A a \in Anchors :
              (Alive /\ FreshLink(a) /\ a.href # r.href) =>
                  /\ ENABLED (/\ handleIntent(a)
                              /\ a.href \in DOMAIN inflight'
                              /\ r \in requests')
                  /\ (WaitRoom /\ HistRoom) =>
                         ENABLED (/\ click(a, PlainClick)
                                  /\ a.href \in DOMAIN inflight'
                                  /\ r \in requests'))
    /\ [][(/\ ev'.op = "settle" /\ ev'.outcome = "ok"
           /\ "nav" \in ev'.released
           /\ \E r \in requests : r.href # ev'.url) =>
              /\ currentUrl' = ev'.url
              /\ html' = EntryOf(ev'.url, title, "ok").html
              /\ \A r \in requests : r.href # ev'.url => r \in requests']_vars

\* a clicked page has been rendered while the fetch of another URL is still
\* outstanding
C33_Witness ==
    /\ ev.op = "settle" /\ ev.outcome = "ok" /\ "nav" \in ev.released
    /\ currentUrl = ev.url
    /\ \E r \in requests : r.href # ev.url

\* ------------------------------------------------- overlapping navigations
\* Hovering, plain clicks on links the tier takes over, and fetches
\* settling, with room in the history for two suspended navigations.
OverlapClick ==
    \E a \in Anchors :
        /\ Intercepts(a)
        /\ Len(hist) + Cardinality(NavWaiters) < MaxOverlap
        /\ click(a, PlainClick)

OverlapSettle ==
    \E r \in requests, o \in Outcomes : settle(r, o) /\ Len(hist') <= MaxOverlap

OverlapNext == Intent \/ OverlapClick \/ OverlapSettle

SpecOverlap == NavInit /\ [][OverlapNext]_vars

\* C35: when a later activation has put its page on display, an earlier
\* navigation whose fetch succeeds after that swaps nothing in: the content,
\* the tracked URL and the history stay those of the later activation. The
\* later activation is a click answered from the cache, or a click whose
\* fetch succeeded before the earlier one's.
C35_LatestActivationWins ==
    [][(/\ ev'.op = "settle" /\ ev'.outcome = "ok" /\ "nav" \in ev'.released
        /\ \/ ev.op = "click" /\ ev.answer = "hit"
           \/ /\ ev.op = "settle" /\ ev.outcome = "ok" /\ "nav" \in ev.released
              /\ ev'.url \in ev.ahead /\ ev'.ahead = {})
       => /\ html' = html
          /\ currentUrl' = currentUrl
          /\ hist' = hist /\ idx' = idx]_vars

\* the URLs of the history entries, oldest first
HistUrls == [i \in 1..Len(hist) |-> U(hist[i].path, hist[i].hash)]

\* C36: the history never holds two consecutive entries for the same URL,
\* however often a link is activated before its fetch resolves.
C36_NoTwinEntries ==
    \A i \in 1..(Len(hist) - 1) : HistUrls[i] # HistUrls[i + 1]

\* ===================================================== head reconciliation
\* longest head and longest desired list the reconciliation is tried on
MaxHead == 3

MaxNodes == 2

\* the serialized nodes pages ask for
NodePool == {StyleNode("home"), StyleNode("year"), LinkNode("/base.css")}

\* elements nobody tagged: a meta element, and a style element a framework
\* or third-party script injected
UnmanagedPool ==
    {Unmanaged("META"), [Unmanaged("STYLE") EXCEPT !.content = "injected"]}

\* live head elements: the untagged ones and tagged ones for the nodes
HeadPool == UnmanagedPool \cup {createElementFromSerialized(n) : n \in NodePool}

Heads == UNION {[1..n -> HeadPool] : n \in 0..MaxHead}

NodeLists == UNION {[1..n -> NodePool] : n \in 0..MaxNodes}

\* a document with some head, before any swap
HeadInit ==
    \E h \in Heads :
        /\ head = h
        /\ html = DocHtml(StartPath)
        /\ title = DocTitle(StartPath)
        /\ currentUrl = U(StartPath, "")
        /\ cache = <<>>
        /\ inflight = <<>>
        /\ requests = {}
        /\ waiters = <<>>
        /\ hist = <<HistEntry(U(StartPath, ""), St(0), -1)>>
        /\ idx = 1
        /\ scroll = 0
        /\ nativeNav = NoNav
        /\ controls = TRUE
        /\ ev = EvNone
        /\ env = NormalEnv
        /\ SwStart

\* syncHeadNodes(headNodes), as swapContent calls it
applySync(nodes) ==
    /\ head' = syncHeadNodes(head, nodes)
    /\ ev' = [op |-> "sync", nodes |-> nodes, before |-> head]
    /\ UNCHANGED <<cache, inflight, requests, waiters, currentUrl, hist, idx,
                   scroll, html, title, nativeNav, controls, swVars, env>>

ApplySync == \E nodes \in NodeLists : applySync(nodes)

\* ensureManagedAttributes(), as the start-up code calls it
applyEnsureManaged ==
    /\ head' = ensureManagedAttributes(head)
    /\ ev' = EvNone
    /\ UNCHANGED <<cache, inflight, requests, waiters, currentUrl, hist, idx,
                   scroll, html, title, nativeNav, controls, swVars, env>>

\* another script appends an element of its own to the head
injectElement(el) ==
    /\ Len(head) < MaxHead
    /\ head' = Append(head, el)
    /\ ev' = EvNone
    /\ UNCHANGED <<cache, inflight, requests, waiters, currentUrl, hist, idx,
                   scroll, html, title, nativeNav, controls, swVars, env>>

InjectElement == \E el \in UnmanagedPool : injectElement(el)

HeadNext == ApplySync \/ applyEnsureManaged \/ InjectElement

SpecHead == HeadInit /\ [][HeadNext]_vars

DesiredKeys(nodes) == {getHeadNodeKey(nodes[i]) : i \in 1..Len(nodes)}

\* C13: reconciling against a head whose managed elements already are the
\* desired list removes no element and creates none (the head keeps its
\* length), the managed elements and their order stay, and a second
\* reconciliation with the same list changes nothing at all.
C13_SyncIdempotent ==
    LET nodes == getManagedHeadNodes(head)
        once == syncHeadNodes(head, nodes)
    IN  /\ RemoveUndesired(head, DesiredKeys(nodes)) = head
        /\ Len(once) = Len(head)
        /\ getManagedHeadNodes(once) = nodes
        /\ syncHeadNodes(once, nodes) = once
        /\ (ev.op = "sync" /\ ev.nodes = getManagedHeadNodes(ev.before))
               => /\ Len(head) = Len(ev.before)
                  /\ getManagedHeadNodes(head) = ev.nodes

\* a reconciliation has run against a head that already had the two desired
\* elements, one of them in front of an untagged element
C13_Witness ==
    /\ ev.op = "sync"
    /\ Len(ev.nodes) = 2
    /\ ev.nodes = getManagedHeadNodes(ev.before)
    /\ Len(ev.before) = 3
    /\ ev.before[1].managed /\ ~ev.before[2].managed
    /\ getManagedHeadNodes(head) = ev.nodes

\* the identity keys of the managed elements of a head, in document order
ManagedKeys(h) ==
    LET managedEls == SelectSeq(h, LAMBDA el : el.managed)
    IN  [i \in 1..Len(managedEls) |-> managedEls[i].key]

\* C34: after a reconciliation the managed elements of the head carry, in
\* document order, exactly the keys of the desired list, each as often as
\* the list has it, whatever the head held before.
C34_ManagedAreTheDesired ==
    ev.op = "sync" =>
        ManagedKeys(head) = [i \in 1..Len(ev.nodes) |-> getHeadNodeKey(ev.nodes[i])]

\* the elements of a head that carry no managed tag, in document order
UnmanagedOf(h) == SelectSeq(h, LAMBDA el : ~el.managed)

\* C14: for any desired list, and after any sequence of reconciliations,
\* the elements not tagged as managed are the same elements, unaltered and
\* in the same order, as before the reconciliation.
C14_UnmanagedUntouched ==
    /\ \A nodes \in NodeLists :
           UnmanagedOf(syncHeadNodes(head, nodes)) = UnmanagedOf(head)
    /\ ev.op = "sync" => UnmanagedOf(head) = UnmanagedOf(ev.before)

\* a reconciliation removed a managed element and created another while an
\* injected style element and a meta element sat in the head
C14_Witness ==
    /\ ev.op = "sync"
    /\ Len(UnmanagedOf(ev.before)) = 2
    /\ UnmanagedOf(ev.before)[1] # UnmanagedOf(ev.before)[2]
    /\ \E i \in 1..Len(ev.before) :
           /\ ev.before[i].managed
           /\ ev.before[i].key \notin DesiredKeys(ev.nodes)
    /\ \E k \in DesiredKeys(ev.nodes) : FirstWithKey(ev.before, k) = 0
    /\ UnmanagedOf(head) = UnmanagedOf(ev.before)

\* ================================================= worker tier: lifecycle
\* caches.open(name): the store is created if absent
Open(c, name) == IF name \in DOMAIN c THEN c ELSE MapSet(c, name, <<>>)

\* cache.put through a Cache object: a store deleted meanwhile takes nothing
Put(c, name, url, body) ==
    IF name \in DOMAIN c THEN MapSet(c, name, MapSet(c[name], url, body)) ELSE c

\* cache.match: the stored response, NoBody for undefined
Match(c, name, url) ==
    IF name \in DOMAIN c /\ url \in DOMAIN c[name] THEN c[name][url] ELSE NoBody

\* the server gets a new build of sw.js, with either version string bumped
\* or neither
Deploy ==
    /\ deployed.build < MaxBuild
    /\ \E h \in {deployed.html, deployed.html + 1},
          s \in {deployed.static, deployed.static + 1} :
           deployed' = Build(deployed.build + 1, h, s)
    /\ UNCHANGED <<navVars, env, reg, caches, installing, active, controller, handlers,
                   issued, online, fetchedOk>>

\* the network comes and goes
Connectivity ==
    /\ online' = ~online
    /\ UNCHANGED <<navVars, env, reg, caches, deployed, installing, active, controller,
                   handlers, issued, fetchedOk>>

\* The install listener runs on a worker for a build the registration has not
\* got (first registration, or an update found once the registration is
\* settled): waitUntil takes the async function, skipWaiting() is called.
install ==
    /\ installing = NoWorker
    /\ active.state \in {"none", "activated"}
    /\ deployed.build > active.b.build
    /\ installing' = Worker(deployed, "installing", "openHtml", {})
    /\ UNCHANGED <<navVars, env, reg, caches, deployed, active, controller, handlers,
                   issued, online, fetchedOk>>

\* const htmlCache = await caches.open(HTML_CACHE)
installOpenHtml ==
    /\ installing.pc = "openHtml"
    /\ caches' = Open(caches, HTML_CACHE(installing.b))
    /\ installing' = [installing EXCEPT !.pc = "addAll"]
    /\ UNCHANGED <<navVars, env, reg, deployed, active, controller, handlers, issued,
                   online, fetchedOk>>

\* a variant that goes on without having stored the shell set
installAddAllSkip ==
    /\ installing.pc = "addAll"
    /\ installing' = [installing EXCEPT !.pc = "openStatic"]
    /\ UNCHANGED <<navVars, env, reg, caches, deployed, active, controller, handlers,
                   issued, online, fetchedOk>>

\* await htmlCache.addAll(SHELL_URLS): every URL fetched and stored, or the
\* promise rejects, the install fails and the worker is discarded
installAddAll ==
    /\ installing.pc = "addAll"
    /\ \E ok \in {b \in BOOLEAN : b => online} :
           IF ok
           THEN /\ caches' = Put(caches, HTML_CACHE(installing.b), RootUrl,
                                 Body("install", installing.b.build))
                /\ installing' = [installing EXCEPT !.pc = "openStatic"]
           ELSE /\ installing' = NoWorker
                /\ UNCHANGED caches
    /\ UNCHANGED <<navVars, env, reg, deployed, active, controller, handlers, issued,
                   online, fetchedOk>>

\* await caches.open(STATIC_CACHE); the install has completed
installOpenStatic ==
    /\ installing.pc = "openStatic"
    /\ caches' = Open(caches, STATIC_CACHE(installing.b))
    /\ installing' = [installing EXCEPT !.state = "installed", !.pc = "done"]
    /\ UNCHANGED <<navVars, env, reg, deployed, active, controller, handlers, issued,
                   online, fetchedOk>>

\* The installed worker skipped waiting: it becomes the active worker, the
\* worker it replaces is terminated with the events it was handling, the
\* clients that worker controlled pass to the new one, and the activate
\* listener starts.
activate ==
    /\ installing.state = "installed"
    /\ active' = [installing EXCEPT !.state = "activating", !.pc = "keys"]
    /\ installing' = NoWorker
    /\ handlers' = {}
    /\ controller' = IF controller = 0 THEN 0 ELSE installing.b.build
    /\ UNCHANGED <<navVars, env, reg, caches, deployed, issued, online, fetchedOk>>

\* a variant that expects the HTML store only
expectedCachesHtmlOnly(b) == {HTML_CACHE(b)}

\* a variant that also expects the HTML store of the source's build
expectedCachesKeepFirst(b) ==
    {HTML_CACHE(b), STATIC_CACHE(b), HTML_CACHE(SourceBuild)}

\* new Set([HTML_CACHE, STATIC_CACHE])
expectedCaches(b) == {HTML_CACHE(b), STATIC_CACHE(b)}

\* const cacheNames = await caches.keys(), filtered
activateKeys ==
    /\ active.pc = "keys"
    /\ active' = [active EXCEPT !.pc = "delete", !.cacheNames = DOMAIN caches]
    /\ UNCHANGED <<navVars, env, reg, caches, deployed, installing, controller, handlers,
                   issued, online, fetchedOk>>

\* the deletes Promise.all waits for: names of the snapshot outside the
\* expected pair that still exist
Stale == (active.cacheNames \ expectedCaches(active.b)) \cap DOMAIN caches

\* one caches.delete(cacheName) completes
activateDelete ==
    /\ active.pc = "delete"
    /\ \E name \in Stale : caches' = MapDel(caches, name)
    /\ UNCHANGED <<navVars, env, reg, deployed, installing, active, controller, handlers,
                   issued, online, fetchedOk>>

\* a variant that does not wait for the deletes
activateClaimEarly ==
    /\ active.pc = "delete"
    /\ controller' = active.b.build
    /\ active' = [active EXCEPT !.pc = "claimed"]
    /\ UNCHANGED <<navVars, env, reg, caches, deployed, installing, handlers, issued,
                   online, fetchedOk>>

\* await self.clients.claim(), once every delete has completed
activateClaim ==
    /\ active.pc = "delete"
    /\ Stale = {}
    /\ controller' = active.b.build
    /\ active' = [active EXCEPT !.pc = "claimed"]
    /\ UNCHANGED <<navVars, env, reg, caches, deployed, installing, handlers, issued,
                   online, fetchedOk>>

\* the waitUntil promise has resolved: the worker is activated
activated ==
    /\ active.pc = "claimed"
    /\ active' = [active EXCEPT !.state = "activated", !.pc = "done"]
    /\ UNCHANGED <<navVars, env, reg, caches, deployed, installing, controller, handlers,
                   issued, online, fetchedOk>>

\* ================================================ worker tier: fetch events
Request(method, url, mode, accept, destination) ==
    [method |-> method, url |-> url, mode |-> mode, accept |-> accept,
     destination |-> destination, saveData |-> "", reducedData |-> "",
     connSaveData |-> FALSE]

NavigateRoot == Request("GET", RootUrl, "navigate", {"text/html"}, "document")

\* the request of the session tier's fetch(href, { credentials, headers }):
\* a GET with fetch()'s defaults, mode cors, Accept */*, no destination
TierFetch(url) == Request("GET", url, "cors", {"*/*"}, "")

\* the requests of the model: page loads, the session tier's fetch(href),
\* a stylesheet, a script under /assets/, an image, a form post, a script of
\* another origin, and page loads under each reduced-data signal
SwRequests ==
    {NavigateRoot,
     Request("GET", YearUrl, "navigate", {"text/html"}, "document"),
     TierFetch(YearUrl),
     Request("GET", StyleUrl, "no-cors", {"text/css", "*/*"}, "style"),
     Request("GET", Url(Origin, "/assets/", "app", ".js"), "no-cors", {"*/*"}, "script"),
     Request("GET", Url(Origin, "/images/", "cover", ".png"), "no-cors", {"image/*"}, "image"),
     Request("POST", RootUrl, "navigate", {"text/html"}, "document"),
     Request("GET", Url(OtherOrigin, "/", "embed", ".js"), "no-cors", {"*/*"}, "script"),
     [NavigateRoot EXCEPT !.saveData = "on"],
     [NavigateRoot EXCEPT !.reducedData = "1"],
     [NavigateRoot EXCEPT !.connSaveData = TRUE]}

\* a variant that reads the connection only, not the request's headers
shouldBypassCachingConnectionOnly(request) == request.connSaveData

shouldBypassCaching(request) ==
    IF request.connSaveData THEN TRUE
    ELSE IF request.saveData = "on" THEN TRUE
    ELSE IF request.reducedData = "1" THEN TRUE
    ELSE FALSE

\* the fetch listener's decision: which handler answers, "pass" when the
\* listener returns without respondWith
Classify(request) ==
    IF request.method # "GET" THEN "pass"
    ELSE IF shouldBypassCaching(request) THEN "pass"
    ELSE IF request.url.origin # Origin THEN "pass"
    ELSE IF request.mode = "navigate" \/ "text/html" \in request.accept THEN "html"
    ELSE IF \/ request.url.dir = "/assets/"
            \/ request.url.ext = ".js"
            \/ request.url.ext = ".css"
            \/ (request.destination = "font" \/ request.url.ext = ".woff2")
         THEN "static"
    ELSE "pass"

StoreOf(kind) == IF kind = "html" THEN HTML_CACHE(active.b) ELSE STATIC_CACHE(active.b)

\* one fetch event being handled: the request, the handler and where it
\* stands, what cache.match gave, how the network fetch ended and with what
\* body, the state of its cache.put, and what respondWith got. priorOk and
\* priorStored are observations made at dispatch: a network fetch of the URL
\* had succeeded before, the store held the URL. An event the listener
\* returned from without respondWith has kind "pass": no handler runs, the
\* browser performs the request itself. store names the cache operation of
\* the handler that was rejected, "ok" when none was.
\* the serial number of the next fetch(request) the worker issues
NextSent ==
    1 + Cardinality({h \in handlers : h.sent > 0})

\* A handler carries the serial number of its network fetch (0 before the
\* fetch is issued): handleStaticAssetRequest issues it after caches.open,
\* handleHtmlRequest after cache.match.
Handler(id, request, kind) ==
    [id |-> id, req |-> request, kind |-> kind,
     sent |-> IF kind = "static" THEN NextSent ELSE 0,
     pc |-> IF kind = "html" THEN "match"
            ELSE IF kind = "static" THEN "net" ELSE "done",
     cached |-> NoBody,
     net |-> IF kind = "pass" THEN "none" ELSE "pending",
     body |-> Body("fetch", id),
     put |-> "none", answer |-> NoAnswer, store |-> "ok",
     priorOk |-> request.url \in fetchedOk,
     priorStored |-> Match(caches, StoreOf(kind), request.url) # NoBody]

\* The fetch listener, for a request the active worker gets: a page load in
\* scope, or a request of the page it controls. A handler starts with
\* caches.open of its store.
fetchListener(request) ==
    /\ active.state = "activated"
    /\ IF request.mode = "navigate"
       THEN request.url.origin = Origin
       ELSE controller = active.b.build
    /\ issued < MaxFetch
    /\ issued' = issued + 1
    /\ handlers' = handlers \cup {Handler(issued + 1, request, Classify(request))}
    /\ caches' = IF Classify(request) = "pass" THEN caches
                 ELSE Open(caches, StoreOf(Classify(request)))
    /\ controller' = IF request.mode = "navigate" THEN active.b.build ELSE controller
    /\ UNCHANGED <<navVars, env, reg, deployed, installing, active, online, fetchedOk>>

FetchEvent == \E request \in SwRequests : fetchListener(request)

Upd(h, g) == (handlers \ {h}) \cup {g}

\* how a network fetch can end: a successful response, a non-success
\* response, a network error; offline it is the error
NetOutcomes == {o \in {"ok", "notok", "error"} : o # "error" => online}

\* a variant that answers nothing before the network has
HtmlAnswerAwaitNetwork(cached) == NoAnswer

\* handleHtmlRequest, `if (cachedResponse) { ...; return cachedResponse; }`
HtmlAnswer(cached) ==
    IF cached # NoBody THEN Answer("cache", TRUE, cached) ELSE NoAnswer

\* handleHtmlRequest up to its return: cache.match, fetch(request) issued,
\* and the cached response, if any, returned
handleHtmlRequestMatch(h) ==
    /\ h.kind = "html" /\ h.pc = "match"
    /\ LET cached == Match(caches, HTML_CACHE(active.b), h.req.url)
       IN  handlers' = Upd(h, [h EXCEPT !.pc = "net", !.cached = cached,
                                        !.sent = NextSent,
                                        !.answer = HtmlAnswer(cached)])
    /\ UNCHANGED <<navVars, env, reg, caches, deployed, installing, active, controller,
                   issued, online, fetchedOk>>

\* a variant that stores whatever response arrives
HtmlPutAny(o) == IF o = "error" THEN "none" ELSE "pending"

\* `if (response && response.ok) { cache.put(request, response.clone()); }`
HtmlPut(o) == IF o = "ok" THEN "pending" ELSE "none"

\* networkFetch settles: .then issues the put for a successful response and
\* hands the response on; .catch gives the cached response or rethrows
handleHtmlRequestSettle(h, o) ==
    /\ h.kind = "html" /\ h.pc = "net"
    /\ handlers' = Upd(h,
           [h EXCEPT !.pc = "done", !.net = o,
                     !.put = HtmlPut(o),
                     !.answer =
                         IF h.answer # NoAnswer THEN h.answer
                         ELSE IF o = "error" THEN Answer("error", FALSE, NoBody)
                         ELSE Answer("network", o = "ok", h.body)])
    /\ UNCHANGED <<navVars, env, reg, caches, deployed, installing, active, controller,
                   issued, online, fetchedOk>>

\* handleStaticAssetRequest: fetch(request) settles; a successful response is
\* put and returned, anything else goes to cache.match
handleStaticAssetRequestSettle(h, o) ==
    /\ h.kind = "static" /\ h.pc = "net"
    /\ IF o = "ok"
       THEN /\ handlers' = Upd(h, [h EXCEPT !.pc = "done", !.net = o,
                                            !.put = "pending",
                                            !.answer = Answer("network", TRUE, h.body)])
            /\ fetchedOk' = fetchedOk \cup {h.req.url}
       ELSE /\ handlers' = Upd(h, [h EXCEPT !.pc = "fallback", !.net = o])
            /\ UNCHANGED fetchedOk
    /\ UNCHANGED <<navVars, env, reg, caches, deployed, installing, active, controller,
                   issued, online>>

\* a variant without the cached fallback
StaticFallbackNoCache(cached, net, body) ==
    IF net = "notok" THEN Answer("network", FALSE, body)
    ELSE Answer("error", FALSE, NoBody)

\* the cached copy if there is one; else the non-success response, or the
\* error rethrown
StaticFallback(cached, net, body) ==
    IF cached # NoBody THEN Answer("cache", TRUE, cached)
    ELSE IF net = "notok" THEN Answer("network", FALSE, body)
    ELSE Answer("error", FALSE, NoBody)

\* handleStaticAssetRequest: `await cache.match(request)` after a response
\* that is not ok, or in the catch block
handleStaticAssetRequestFallback(h) ==
    /\ h.kind = "static" /\ h.pc = "fallback"
    /\ LET cached == Match(caches, STATIC_CACHE(active.b), h.req.url)
       IN  handlers' = Upd(h, [h EXCEPT !.pc = "done", !.cached = cached,
                                        !.answer = StaticFallback(cached, h.net, h.body)])
    /\ UNCHANGED <<navVars, env, reg, caches, deployed, installing, active, controller,
                   issued, online, fetchedOk>>

\* a cache.put(request, response.clone()) nobody awaited completes
cachePut(h) ==
    /\ h.put = "pending"
    /\ caches' = Put(caches, StoreOf(h.kind), h.req.url, h.body)
    /\ handlers' = Upd(h, [h EXCEPT !.put = "done"])
    /\ UNCHANGED <<navVars, env, reg, deployed, installing, active, controller, issued,
                   online, fetchedOk>>

HtmlMatch == \E h \in handlers : handleHtmlRequestMatch(h)

HtmlSettle == \E h \in handlers, o \in NetOutcomes : handleHtmlRequestSettle(h, o)

StaticSettle ==
    \E h \in handlers, o \in NetOutcomes : handleStaticAssetRequestSettle(h, o)

StaticFallbackStep == \E h \in handlers : handleStaticAssetRequestFallback(h)

CachePut == \E h \in handlers : cachePut(h)

\* the worker tier on its own: the page stands still
SwInit == NavInit /\ scroll = 0

SwNext ==
    \/ Deploy \/ Connectivity
    \/ install \/ installOpenHtml \/ installAddAll \/ installOpenStatic
    \/ activate \/ activateKeys \/ activateDelete \/ activateClaim \/ activated
    \/ FetchEvent \/ HtmlMatch \/ HtmlSettle \/ StaticSettle
    \/ StaticFallbackStep \/ CachePut

SpecSW == SwInit /\ [][SwNext]_vars

\* ======================================== worker tier: the store failing
\* The Cache API's promises can reject (quota, a corrupted or unavailable
\* store). Each action here is one cache operation of a handler rejecting.

\* `await caches.open(...)` at the head of either handler rejects: the async
\* function rejects with it, and so does the promise respondWith was given
openFails(request) ==
    /\ active.state = "activated"
    /\ IF request.mode = "navigate"
       THEN request.url.origin = Origin
       ELSE controller = active.b.build
    /\ Classify(request) # "pass"
    /\ issued < MaxFetch
    /\ issued' = issued + 1
    /\ handlers' = handlers \cup
           {[Handler(issued + 1, request, Classify(request))
                EXCEPT !.pc = "done", !.net = "none", !.store = "open",
                       !.answer = Answer("error", FALSE, NoBody)]}
    /\ controller' = IF request.mode = "navigate" THEN active.b.build ELSE controller
    /\ UNCHANGED <<navVars, env, reg, caches, deployed, installing, active, online,
                   fetchedOk>>

\* handleHtmlRequest, `await cache.match(request)` rejects: fetch(request)
\* is never reached
htmlMatchFails(h) ==
    /\ h.kind = "html" /\ h.pc = "match"
    /\ handlers' = Upd(h, [h EXCEPT !.pc = "done", !.net = "none",
                                    !.store = "match",
                                    !.answer = Answer("error", FALSE, NoBody)])
    /\ UNCHANGED <<navVars, env, reg, caches, deployed, installing, active, controller,
                   issued, online, fetchedOk>>

\* handleStaticAssetRequest, `await cache.match(request)` rejects. After a
\* network error the match is the one in the catch block, and the handler
\* rejects. After a non-success response it is the one in the try block: the
\* catch block matches again and returns the cached copy, or rethrows.
staticMatchFails(h) ==
    /\ h.kind = "static" /\ h.pc = "fallback"
    /\ \E again \in {"fails", "works"} :
           LET cached == IF h.net = "notok" /\ again = "works"
                         THEN Match(caches, STATIC_CACHE(active.b), h.req.url)
                         ELSE NoBody
           IN  handlers' = Upd(h,
                   [h EXCEPT !.pc = "done", !.store = "match", !.cached = cached,
                             !.answer = IF cached # NoBody
                                        THEN Answer("cache", TRUE, cached)
                                        ELSE Answer("error", FALSE, NoBody)])
    /\ UNCHANGED <<navVars, env, reg, caches, deployed, installing, active, controller,
                   issued, online, fetchedOk>>

\* a variant in which the rejected put takes the response with it
cachePutFailsResponse(h) ==
    /\ h.put = "pending"
    /\ handlers' = Upd(h, [h EXCEPT !.put = "failed", !.store = "put",
                                    !.answer = Answer("error", FALSE, NoBody)])
    /\ UNCHANGED <<navVars, env, reg, caches, deployed, installing, active, controller,
                   issued, online, fetchedOk>>

\* a cache.put nobody awaited rejects: nothing is stored, nobody is told
cachePutFails(h) ==
    /\ h.put = "pending"
    /\ handlers' = Upd(h, [h EXCEPT !.put = "failed", !.store = "put"])
    /\ UNCHANGED <<navVars, env, reg, caches, deployed, installing, active, controller,
                   issued, online, fetchedOk>>

OpenFails == \E request \in SwRequests : openFails(request)

HtmlMatchFails == \E h \in handlers : htmlMatchFails(h)

StaticMatchFails == \E h \in handlers : staticMatchFails(h)

CachePutFails == \E h \in handlers : cachePutFails(h)

StoreNext ==
    SwNext \/ OpenFails \/ HtmlMatchFails \/ StaticMatchFails \/ CachePutFails

SpecStore == SwInit /\ [][StoreNext]_vars

\* ================================================== worker registration
\* register-service-worker.ts. The page is loaded, by the user or by the
\* script's own reload: a page in scope is controlled by the registration's
\* active worker, if there is one, and the script starts over.
Controlling ==
    IF active.state \in {"activating", "activated"} THEN active.b.build ELSE 0

pageLoad ==
    /\ reg.pc # "unloaded"
    /\ reg' = RegStart("user")
    /\ controller' = Controlling
    /\ handlers' = {}
    /\ UNCHANGED <<navVars, env, caches, deployed, installing, active, issued,
                   online, fetchedOk>>

\* the load listener calls register(): hasExistingController is taken, then
\* navigator.serviceWorker.register('/sw.js') is awaited
registerStart ==
    /\ reg.pc = "unloaded"
    /\ reg' = [reg EXCEPT !.pc = "registering",
                          !.hasExistingController = controller # 0]
    /\ UNCHANGED <<navVars, env, caches, deployed, installing, active, controller,
                   handlers, issued, online, fetchedOk>>

\* register() resolved: watchWorker(registration.installing), which is null
\* unless a worker is being installed, and the updatefound listener is on
registerResolve ==
    /\ reg.pc = "registering"
    /\ reg' = [reg EXCEPT !.pc = "watching",
                          !.watched = IF installing.state = "installing"
                                      THEN {installing.b.build} ELSE {}]
    /\ UNCHANGED <<navVars, env, caches, deployed, installing, active, controller,
                   handlers, issued, online, fetchedOk>>

\* register() rejected (the script could not be fetched or was refused): the
\* catch block takes the error and does nothing
registerReject ==
    /\ reg.pc = "registering"
    /\ reg' = [reg EXCEPT !.pc = "failed"]
    /\ UNCHANGED <<navVars, env, caches, deployed, installing, active, controller,
                   handlers, issued, online, fetchedOk>>

\* the updatefound listener: watchWorker(registration.installing)
updatefound ==
    /\ reg.pc = "watching"
    /\ installing.state = "installing"
    /\ installing.b.build \notin reg.watched
    /\ reg' = [reg EXCEPT !.watched = @ \cup {installing.b.build}]
    /\ UNCHANGED <<navVars, env, caches, deployed, installing, active, controller,
                   handlers, issued, online, fetchedOk>>

\* worker.state of the worker of build n, as the page reads it
WorkerState(n) ==
    IF installing.b.build = n THEN installing.state
    ELSE IF active.b.build = n THEN active.state
    ELSE "redundant"

\* a variant that does not look at hasExistingController
shouldReloadAlways(state, hasExistingController) == state = "activated"

\* `worker.state === 'activated' && hasExistingController`
shouldReload(state, hasExistingController) ==
    state = "activated" /\ hasExistingController

\* the statechange listener of a watched worker runs for the state the
\* worker has reached: window.location.reload(), or nothing
statechange(n) ==
    /\ reg.pc = "watching"
    /\ n \in reg.watched
    /\ WorkerState(n) \in {"installed", "activating", "activated"}
    /\ <<n, WorkerState(n)>> \notin reg.handled
    /\ IF shouldReload(WorkerState(n), reg.hasExistingController)
       THEN /\ reg' = RegStart("script")
            /\ controller' = Controlling
            /\ handlers' = {}
       ELSE /\ reg' = [reg EXCEPT !.handled = @ \cup {<<n, WorkerState(n)>>}]
            /\ UNCHANGED <<controller, handlers>>
    /\ UNCHANGED <<navVars, env, caches, deployed, installing, active, issued,
                   online, fetchedOk>>

StateChange == \E n \in 1..MaxBuild : statechange(n)

\* the registration script next to the worker's life cycle
RegNext ==
    \/ Deploy \/ Connectivity
    \/ install \/ installOpenHtml \/ installAddAll \/ installOpenStatic
    \/ activate \/ activateKeys \/ activateDelete \/ activateClaim \/ activated
    \/ pageLoad \/ registerStart \/ registerResolve \/ registerReject
    \/ updatefound \/ StateChange

SpecReg == SwInit /\ [][RegNext]_vars

\* ==================================================== claims, worker tier
\* C4: once a worker has activated (and no newer build is waiting to be
\* installed), every cache store name caches.keys() would give is one of the
\* two names that worker expects: a store an earlier install created under a
\* version token bumped since is gone.
C4_ActivationPurgesStale ==
    (active.state = "activated" /\ deployed = active.b)
        => DOMAIN caches \subseteq {HTML_CACHE(active.b), STATIC_CACHE(active.b)}

\* the second install came with the HTML token bumped, the activate handler
\* saw the first build's HTML store among the names, and the store is gone
C4_Witness ==
    /\ active.state = "activated"
    /\ deployed = active.b
    /\ active.b.html = HtmlToken + 1
    /\ HTML_CACHE(SourceBuild) \in active.cacheNames
    /\ HTML_CACHE(SourceBuild) \notin DOMAIN caches
    /\ HTML_CACHE(active.b) \in DOMAIN caches

\* the static-asset handler's policy: a successful network response is put
\* into the static-asset store and returned; after a non-success response or
\* a network failure the cached copy is returned if there is one; with
\* neither, the non-success response is returned or the error propagates
StaticNetworkFirst ==
    \A h \in handlers :
        (h.kind = "static" /\ h.pc = "done") =>
            /\ h.net = "ok" =>
                  /\ h.answer = Answer("network", TRUE, h.body)
                  /\ h.put # "none"
                  /\ h.put = "done" =>
                         h.req.url \in DOMAIN caches[STATIC_CACHE(active.b)]
            /\ h.net # "ok" =>
                  /\ h.put = "none"
                  /\ h.cached # NoBody => h.answer = Answer("cache", TRUE, h.cached)
                  /\ (h.cached = NoBody /\ h.net = "notok") =>
                         h.answer = Answer("network", FALSE, h.body)
                  /\ (h.cached = NoBody /\ h.net = "error") =>
                         h.answer = Answer("error", FALSE, NoBody)

\* C5 as stated: the policy, and hence a request that meets a network failure
\* after a network fetch of its URL has succeeded gets the cached copy
C5_StaticNetworkFirstHence ==
    /\ StaticNetworkFirst
    /\ \A h \in handlers :
           (h.kind = "static" /\ h.pc = "done" /\ h.priorOk /\ h.net = "error")
               => h.answer.from = "cache"

\* C5 amended: the policy, and a request that meets a network failure gets
\* the cached copy when the store held one for its URL as it was made
C5_StaticNetworkFirst ==
    /\ StaticNetworkFirst
    /\ \A h \in handlers :
           (h.kind = "static" /\ h.pc = "done" /\ h.priorStored /\ h.net = "error")
               => h.answer.from = "cache"

\* /style.css was fetched and stored, and a later request for it, its network
\* fetch failing, was answered with the copy of the first
C5_Witness ==
    \E h \in handlers :
        /\ h.kind = "static" /\ h.req.url = StyleUrl
        /\ h.priorOk /\ h.priorStored
        /\ h.net = "error"
        /\ h.answer.from = "cache"
        /\ h.answer.body.by = "fetch" /\ h.answer.body.n < h.id

\* C6: an HTML request whose URL has a cached response is answered with it as
\* soon as cache.match has returned, whatever the network fetch does later and
\* whether or not it ever settles; a successful background response is put
\* over the store's entry, a failed one is swallowed (no put, the answer
\* stays).
C6_StaleWhileRevalidate ==
    [][/\ \A h \in handlers' :
              (h.kind = "html" /\ h.pc # "match" /\ h.cached # NoBody) =>
                  /\ h.answer = Answer("cache", TRUE, h.cached)
                  /\ h.net = "ok" => h.put # "none"
                  /\ h.net \in {"notok", "error"} => h.put = "none"
       /\ \A h \in handlers :
              (h.kind = "html" /\ h.put = "pending"
                   /\ [h EXCEPT !.put = "done"] \in handlers')
                  => Match(caches', HTML_CACHE(active.b), h.req.url) = h.body]_vars

\* the cached page has been returned while the network fetch is outstanding
C6_Witness ==
    \E h \in handlers :
        /\ h.kind = "html"
        /\ h.cached # NoBody
        /\ h.pc = "net" /\ h.net = "pending"
        /\ h.answer = Answer("cache", TRUE, h.cached)

\* what the worker takes for a page request, and for a static asset
IsHtmlRequest(r) == r.mode = "navigate" \/ "text/html" \in r.accept

IsStaticRequest(r) ==
    \/ r.url.dir = "/assets/"
    \/ r.url.ext \in {".js", ".css", ".woff2"}
    \/ r.destination = "font"

ReducedDataSignal(r) == r.connSaveData \/ r.saveData = "on" \/ r.reducedData = "1"

Answerable(r) ==
    /\ r.method = "GET"
    /\ r.url.origin = Origin
    /\ ~ReducedDataSignal(r)
    /\ IsHtmlRequest(r) \/ IsStaticRequest(r)

\* C15: the worker calls respondWith only for a GET request of its own
\* origin that carries no reduced-data signal and is a page or a static-asset
\* request. For every other request no handler runs: nothing is matched,
\* nothing is put, nothing is answered, and the dispatch of the event leaves
\* the cache stores as they were.
C15_OnlyAnswerable ==
    /\ [](\A h \in handlers :
              /\ h.kind # "pass" => Answerable(h.req)
              /\ ~Answerable(h.req) =>
                     /\ h.kind = "pass" /\ h.pc = "done"
                     /\ h.cached = NoBody /\ h.net = "none"
                     /\ h.put = "none" /\ h.answer = NoAnswer
                     /\ \A name \in DOMAIN caches : \A u \in DOMAIN caches[name] :
                            caches[name][u] # h.body)
    /\ [][\A h \in handlers' \ handlers :
              ~Answerable(h.req) => caches' = caches]_vars

\* the worker has let a form post and a page load with Save-Data: on pass,
\* with no store touched
C15_Witness ==
    /\ \E h \in handlers : h.kind = "pass" /\ h.req.method = "POST"
    /\ \E h \in handlers : h.kind = "pass" /\ h.req.saveData = "on"
    /\ \A name \in DOMAIN caches : DOMAIN caches[name] \subseteq SHELL_URLS

\* C17: an HTML request with no cached response is not answered before the
\* network fetch settles, and then with what the fetch gave: the response,
\* successful or not, or the error. A response that is not successful is
\* not put into any store.
C17_HtmlNoCacheNetwork ==
    \A h \in handlers :
        (h.kind = "html" /\ h.pc # "match" /\ h.cached = NoBody) =>
            /\ h.pc = "net" => h.answer = NoAnswer
            /\ (h.pc = "done" /\ h.net = "ok") =>
                   h.answer = Answer("network", TRUE, h.body)
            /\ (h.pc = "done" /\ h.net = "error") =>
                   h.answer = Answer("error", FALSE, NoBody)
            /\ (h.pc = "done" /\ h.net = "notok") =>
                   /\ h.answer = Answer("network", FALSE, h.body)
                   /\ h.put = "none"
                   /\ \A name \in DOMAIN caches : \A u \in DOMAIN caches[name] :
                          caches[name][u] # h.body

\* a page not in the store was requested twice: once the network failed and
\* the error went to the requester, once the server's non-success response
\* was handed on and not stored
C17_Witness ==
    /\ \E h \in handlers :
           /\ h.kind = "html" /\ h.cached = NoBody /\ h.req.url = YearUrl
           /\ h.net = "error" /\ h.answer = Answer("error", FALSE, NoBody)
    /\ \E h \in handlers :
           /\ h.kind = "html" /\ h.cached = NoBody /\ h.req.url = YearUrl
           /\ h.net = "notok" /\ h.answer = Answer("network", FALSE, h.body)
    /\ YearUrl \notin DOMAIN caches[HTML_CACHE(active.b)]

\* C18 as stated: when a cache operation of a handler (open, match or put)
\* has been rejected, the handler still fetched from the network and what
\* the network gave is the answer.
C18_StoreFailureFallsBackToNetwork ==
    \A h \in handlers :
        (h.store # "ok" /\ h.pc = "done") =>
            /\ h.net # "none"
            /\ h.net = "ok" => h.answer = Answer("network", TRUE, h.body)
            /\ h.net = "notok" => h.answer = Answer("network", FALSE, h.body)

\* what holds: only a rejected put leaves the answer alone
C18_PutFailureSwallowed ==
    \A h \in handlers :
        (h.store = "put" /\ h.pc = "done") =>
            /\ h.net = "ok"
            /\ h.answer # NoAnswer /\ h.answer.ok
            /\ h.kind = "static" => h.answer = Answer("network", TRUE, h.body)

\* C19 as stated: on a page the active worker controls, with no reduced-data
\* signal, the request of the session tier's fetch-and-cache gets a handler
\* of the worker, which answers it from its store or from the network and
\* puts a successful network response into its store.
C19_TierFetchIntercepted ==
    \A h \in handlers :
        (h.req = TierFetch(YearUrl) /\ ~ReducedDataSignal(h.req)) =>
            /\ h.kind \in {"html", "static"}
            /\ h.pc = "done" =>
                   /\ h.answer.from \in {"cache", "network", "error"}
                   /\ h.net = "ok" => h.put # "none"

\* C22: a handler that has issued a put has given its answer already, be
\* the put still pending, completed or rejected: the answer is a successful
\* one, and it is the network response itself unless the HTML handler had
\* answered from the store before.
C22_PutNeverBlocks ==
    \A h \in handlers :
        h.put # "none" =>
            /\ h.net = "ok" /\ h.pc = "done"
            /\ h.answer # NoAnswer /\ h.answer.ok
            /\ (h.kind = "static" \/ h.cached = NoBody)
                   => h.answer = Answer("network", TRUE, h.body)
            /\ (h.kind = "html" /\ h.cached # NoBody)
                   => h.answer = Answer("cache", TRUE, h.cached)

\* a page and a stylesheet came from the network; the put of the one was
\* rejected and the put of the other is still pending, and both answers
\* are the network responses
C22_Witness ==
    /\ \E h \in handlers :
           /\ h.kind = "html" /\ h.put = "failed"
           /\ h.answer = Answer("network", TRUE, h.body)
           /\ Match(caches, HTML_CACHE(active.b), h.req.url) # h.body
    /\ \E h \in handlers :
           /\ h.kind = "static" /\ h.put = "pending"
           /\ h.answer = Answer("network", TRUE, h.body)

\* a background revalidation that failed: the page had been answered from
\* the store and the network fetch gave an error or a non-success response
FailedRevalidation(h) ==
    /\ h.kind = "html" /\ h.cached # NoBody
    /\ h.pc = "done" /\ h.net \in {"notok", "error"}

\* C23: the step in which a background revalidation fails leaves every cache
\* store as it was, and the handler never writes: it has no put, and no
\* store holds the body of its network response.
C23_FailedRevalidationKeepsEntry ==
    /\ [](\A h \in handlers :
              FailedRevalidation(h) =>
                  /\ h.put = "none"
                  /\ h.answer = Answer("cache", TRUE, h.cached)
                  /\ \A name \in DOMAIN caches : \A u \in DOMAIN caches[name] :
                         caches[name][u] # h.body)
    /\ [][\A h \in handlers' \ handlers :
              FailedRevalidation(h) => caches' = caches]_vars

\* a revalidation failed with a non-success response and the store still
\* holds, for that URL, the response the page was answered with
C23_Witness ==
    \E h \in handlers :
        /\ FailedRevalidation(h)
        /\ h.net = "notok"
        /\ Match(caches, HTML_CACHE(active.b), h.req.url) = h.cached

\* C30: the activate listener reaches clients.claim() only with every store
\* outside its expected pair deleted: in the step that claims, and for as
\* long as the claim is the last thing the listener did, every existing
\* store is one of the two expected; and a page nobody controlled comes
\* under the activating worker by no other step than that.
C30_ClaimAfterDeletes ==
    /\ [](active.pc = "claimed" =>
              DOMAIN caches \subseteq expectedCaches(active.b))
    /\ [][/\ (active.pc = "delete" /\ active'.pc = "claimed") =>
                 /\ DOMAIN caches \subseteq expectedCaches(active.b)
                 /\ caches' = caches
          /\ (active'.state = "activating" /\ controller = 0 /\ controller' # 0) =>
                 /\ active.pc = "delete" /\ active'.pc = "claimed"
                 /\ DOMAIN caches' \subseteq expectedCaches(active.b)]_vars

\* an update with the HTML token bumped has just claimed the page: the
\* first build's HTML store was among the names found and is gone
C30_Witness ==
    /\ active.state = "activating" /\ active.pc = "claimed"
    /\ active.b.html = HtmlToken + 1
    /\ HTML_CACHE(SourceBuild) \in active.cacheNames
    /\ HTML_CACHE(SourceBuild) \notin DOMAIN caches
    /\ controller = active.b.build

\* the entries of a store, none for a store that does not exist
StoreOrEmpty(name) == IF name \in DOMAIN caches THEN caches[name] ELSE <<>>

\* C31: while a worker is installed (its install has completed and it has
\* not yet been made active), the HTML store of its build exists and holds
\* every shell URL, and the static-asset store of its build exists; the step
\* that completes the install puts nothing into the static-asset store, and
\* no step of an install but addAll writes an entry.
C31_InstallLeavesShell ==
    /\ [](installing.state = "installed" =>
              /\ HTML_CACHE(installing.b) \in DOMAIN caches
              /\ SHELL_URLS \subseteq DOMAIN caches[HTML_CACHE(installing.b)]
              /\ STATIC_CACHE(installing.b) \in DOMAIN caches)
    /\ [][/\ (installing.state # "installed" /\ installing'.state = "installed") =>
                 /\ SHELL_URLS \subseteq DOMAIN caches[HTML_CACHE(installing.b)]
                 /\ caches'[STATIC_CACHE(installing.b)] =
                        StoreOrEmpty(STATIC_CACHE(installing.b))
          /\ (installing.pc = "openHtml" /\ installing'.pc = "addAll") =>
                 caches'[HTML_CACHE(installing.b)] =
                     StoreOrEmpty(HTML_CACHE(installing.b))]_vars

\* the first install has completed: '/' is in the new HTML store as addAll
\* fetched it, and the static-asset store is there and empty
C31_Witness ==
    /\ installing.state = "installed"
    /\ active = NoWorker
    /\ caches[HTML_CACHE(installing.b)][RootUrl] = Body("install", installing.b.build)
    /\ caches[STATIC_CACHE(installing.b)] = <<>>

\* C37: of two HTML handlers for the same URL whose revalidations both
\* succeeded and were both stored, the entry of the store is the response of
\* the network fetch that was issued later.
C37_LaterFetchStays ==
    \A h1 \in handlers : \A h2 \in handlers :
        (/\ h1.kind = "html" /\ h2.kind = "html"
         /\ h1.req.url = h2.req.url
         /\ 0 < h1.sent /\ h1.sent < h2.sent
         /\ h1.net = "ok" /\ h2.net = "ok"
         /\ h1.put = "done" /\ h2.put = "done")
        => Match(caches, HTML_CACHE(active.b), h2.req.url) = h2.body

\* the HTML store and the static-asset store named by a build's tokens
CurrentPair(b) == {HTML_CACHE(b), STATIC_CACHE(b)}

\* C38: from the step that makes a worker the active one to the step that
\* ends its activation, the two stores of its expected pair stay as they
\* are, entry by entry; so do the stores of any build with the same two
\* version tokens, which is what a re-activation without a bump finds; and a
\* store that goes has a name outside the pair.
C38_ActivationKeepsCurrentStores ==
    [][(active'.state = "activating" \/ active.state = "activating") =>
          /\ \A n \in 1..MaxBuild :
                 \A name \in CurrentPair(Build(n, active'.b.html, active'.b.static)) :
                     name \in DOMAIN caches =>
                         /\ name \in DOMAIN caches'
                         /\ caches'[name] = caches[name]
          /\ (DOMAIN caches \ DOMAIN caches') \cap CurrentPair(active'.b) = {}]_vars

\* a second build with both tokens unchanged has taken over and finished its
\* deletes: both stores are there, the HTML store with a page that a handler
\* of the first build had stored
C38_Witness ==
    /\ active.state = "activating" /\ active.pc = "claimed"
    /\ active.b = Build(2, HtmlToken, StaticToken)
    /\ active.cacheNames = CurrentPair(active.b)
    /\ DOMAIN caches = CurrentPair(active.b)
    /\ \E u \in DOMAIN caches[HTML_CACHE(active.b)] :
           caches[HTML_CACHE(active.b)][u].by = "fetch"

\* C39: the page is reloaded by the script only in the statechange listener
\* of a watched worker that has reached activated, and only when the page
\* had a controller as register() started; a page that had one was loaded
\* with a worker already active, so the worker activating is not the first
\* ever installed; and a rejected registration changes nothing of the page
\* and leaves no listener behind.
C39_ReloadOnlyWithExistingController ==
    /\ [](/\ reg.hasExistingController => active.state # "none"
          /\ reg.pc = "failed" => reg.watched = {})
    /\ [][/\ (reg'.by = "script" /\ reg.pc # "unloaded" /\ reg'.pc = "unloaded") =>
                 /\ reg.pc = "watching"
                 /\ reg.hasExistingController
                 /\ active.state = "activated"
                 /\ active.b.build \in reg.watched
                 /\ active' = active
          /\ (reg.pc = "unloaded" /\ reg'.pc = "registering") =>
                 reg'.hasExistingController = (controller # 0)
          /\ (active.state = "none" /\ active'.state # "none") =>
                 ~reg'.hasExistingController
          /\ (reg.pc = "registering" /\ reg'.pc = "failed") =>
                 /\ navVars' = navVars
                 /\ controller' = controller
                 /\ reg'.by = reg.by]_vars

\* the script has reloaded the page for the second build and the page is
\* under that build's worker
C39_Witness ==
    /\ reg.by = "script"
    /\ reg.pc = "unloaded"
    /\ active.state = "activated" /\ active.b.build = 2
    /\ controller = 2

\* the first worker ever installed was watched and has reached activated,
\* the listener ran for it, and the page was not reloaded
C39_WitnessFirstInstall ==
    /\ reg.by = "user" /\ reg.pc = "watching"
    /\ ~reg.hasExistingController
    /\ active.b.build = 1
    /\ <<1, "activated">> \in reg.handled

====
